---- MODULE Spec2Model ----
(***************************************************************************)
(* Model of the miniGU Python binding layer (src/minigu/python/minigu.py): *)
(* the lazy connection handle _BaseMiniGU with its two facades MiniGU and  *)
(* AsyncMiniGU, the error classifier _handle_exception and the sanitizers. *)
(* The native engine (PyMiniGU) is an external collaborator: each of its   *)
(* calls either succeeds or raises, chosen nondeterministically.           *)
(* Further sections model the eager class MiniGU of src/python/minigu.py   *)
(* and the use of one lazy handle by two threads and by two tasks.         *)
(***************************************************************************)
EXTENDS Integers, Sequences, FiniteSets, TLC

VARIABLES
    facade,             \* which class the handle is: "MiniGU" or "AsyncMiniGU"
    HAS_RUST_BINDINGS,  \* module-level flag (with PyMiniGU non-None when TRUE)
    rust_instance,      \* self._rust_instance: 0 = None, else index into instances
    is_connected,       \* self.is_connected
    instances,          \* every PyMiniGU instance allocated so far, in order
    close_called,       \* ghost: close() has been invoked on this handle
    op,                 \* ghost: the operation performed by the last step
    outcome,            \* ghost: what that operation returned or raised
    calls,              \* ghost: native calls made by that operation, in order
    msg,                \* ghost: the native failure message handed to _handle_exception,
                        \*        or the message of the TransactionError raised
    predicates_available, \* is_transaction_error / is_not_implemented_error were imported
    input,              \* argument of the pure function under check
    output,             \* what that function returned
    qr,                 \* a QueryResult object
    mirror,             \* the AsyncMiniGU handle driven in lockstep with a MiniGU handle
    stored_data,        \* self._stored_data of the eager MiniGU (src/python/minigu.py)
    store_access,       \* ghost: how the last operation touched _stored_data
    pc                  \* where each concurrent caller of the handle stands

vars == <<facade, HAS_RUST_BINDINGS, rust_instance, is_connected, instances,
          close_called, op, outcome, calls, msg, predicates_available,
          input, output, qr, mirror, stored_data, store_access, pc>>

\* the variables the handle model does not use
Unused == <<input, output, qr, mirror>>

(***************************************************************************)
(* Bounds                                                                  *)
(***************************************************************************)
MaxInst == 2        \* native instances one handle may allocate in a run
MaxCloseCalls == 2  \* native close() calls made in a run
MaxFrags == 2       \* fragments concatenated into one failure message
MaxStrLen == 3      \* characters of a string handed to a sanitizer

(***************************************************************************)
(* Strings are sequences of one-character strings.                         *)
(***************************************************************************)
UpperChars == <<"A","B","C","D","E","F","G","H","I","J","K","L","M",
                "N","O","P","Q","R","S","T","U","V","W","X","Y","Z">>
LowerChars == <<"a","b","c","d","e","f","g","h","i","j","k","l","m",
                "n","o","p","q","r","s","t","u","v","w","x","y","z">>

\* the lower-case letter of each upper-case letter
LowerOf ==
    [c \in {UpperChars[i] : i \in 1..Len(UpperChars)} |->
        LowerChars[CHOOSE i \in 1..Len(UpperChars) : UpperChars[i] = c]]

\* str.lower() on one character
LowerChar(c) == IF c \in DOMAIN LowerOf THEN LowerOf[c] ELSE c

\* str.lower()
StrLower(s) == [i \in 1..Len(s) |-> LowerChar(s[i])]

\* Python's  k in s  for strings
Contains(s, k) ==
    \E i \in 0..(Len(s) - Len(k)) : SubSeq(s, i + 1, i + Len(k)) = k

KwSyntax == <<"s","y","n","t","a","x">>
KwError == <<"e","r","r","o","r">>
KwUnexpected == <<"u","n","e","x","p","e","c","t","e","d">>
KwInvalid == <<"i","n","v","a","l","i","d">>
KwTimeout == <<"t","i","m","e","o","u","t">>
KwTransaction == <<"t","r","a","n","s","a","c","t","i","o","n">>
KwTxn == <<"t","x","n">>
KwCommit == <<"c","o","m","m","i","t">>
KwRollback == <<"r","o","l","l","b","a","c","k">>
KwNotImplemented == <<"n","o","t"," ","i","m","p","l","e","m","e","n","t","e","d">>
KwNotYetImplemented ==
    <<"n","o","t"," ","y","e","t"," ","i","m","p","l","e","m","e","n","t","e","d">>

(***************************************************************************)
(* Exception classes                                                       *)
(***************************************************************************)
\* the subclasses of MiniGUError (and MiniGUError itself)
TypedErrors == {"MiniGUError", "ConnectionError", "QuerySyntaxError",
                "QueryExecutionError", "QueryTimeoutError", "DataError",
                "GraphError", "TransactionError"}
\* exceptions that are not MiniGUError: RuntimeError raised by the layer and
\* whatever the native engine raised
RawErrors == {"RuntimeError", "NativeError"}

\* the spec's error kind of a raised exception
KindOf(exc) ==
    CASE exc = "ConnectionError" -> "Connection"
      [] exc = "QuerySyntaxError" -> "Syntax"
      [] exc = "QueryTimeoutError" -> "Timeout"
      [] exc = "TransactionError" -> "Transaction"
      [] exc = "MiniGUError" -> "NotImplemented"
      [] exc = "QueryExecutionError" -> "Execution"
      [] exc = "DataError" -> "Data"
      [] exc = "GraphError" -> "Graph"
      [] OTHER -> "Raw"

(***************************************************************************)
(* _handle_exception                                                       *)
(***************************************************************************)
PredOutcomes == {"true", "false", "raise"}

\* The try block of lines 94-103: the exception raised inside it, "none" if
\* it completes.  predAvail: both Rust predicates were imported; tx and ni:
\* what is_transaction_error(e) and is_not_implemented_error(e) do.
RustPredicateCheck(predAvail, tx, ni) ==
    IF ~predAvail THEN "none"
    ELSE IF tx = "raise" THEN "NativeError"
    ELSE IF tx = "true" THEN "TransactionError"
    ELSE IF ni = "raise" THEN "NativeError"
    ELSE IF ni = "true" THEN "MiniGUError"
    ELSE "none"

\* mutant of KeywordMatch: the timeout rule is checked before the syntax rule
KeywordMatch_TimeoutFirst(error_lower) ==
    IF Contains(error_lower, KwTimeout)
    THEN "QueryTimeoutError"
    ELSE IF \/ Contains(error_lower, KwSyntax) /\ Contains(error_lower, KwError)
            \/ Contains(error_lower, KwUnexpected)
            \/ Contains(error_lower, KwInvalid) /\ Contains(error_lower, KwSyntax)
    THEN "QuerySyntaxError"
    ELSE IF \/ Contains(error_lower, KwTransaction)
            \/ Contains(error_lower, KwTxn)
            \/ Contains(error_lower, KwCommit)
            \/ Contains(error_lower, KwRollback)
    THEN "TransactionError"
    ELSE IF \/ Contains(error_lower, KwNotImplemented)
            \/ Contains(error_lower, KwNotYetImplemented)
    THEN "MiniGUError"
    ELSE "QueryExecutionError"

\* mutant of KeywordMatch: the transaction rule is checked before the timeout
\* rule
KeywordMatch_TransactionFirst(error_lower) ==
    IF \/ Contains(error_lower, KwSyntax) /\ Contains(error_lower, KwError)
       \/ Contains(error_lower, KwUnexpected)
       \/ Contains(error_lower, KwInvalid) /\ Contains(error_lower, KwSyntax)
    THEN "QuerySyntaxError"
    ELSE IF \/ Contains(error_lower, KwTransaction)
            \/ Contains(error_lower, KwTxn)
            \/ Contains(error_lower, KwCommit)
            \/ Contains(error_lower, KwRollback)
    THEN "TransactionError"
    ELSE IF Contains(error_lower, KwTimeout)
    THEN "QueryTimeoutError"
    ELSE IF \/ Contains(error_lower, KwNotImplemented)
            \/ Contains(error_lower, KwNotYetImplemented)
    THEN "MiniGUError"
    ELSE "QueryExecutionError"

\* The if/elif chain of lines 107-130 on the lower-cased message
KeywordMatch(error_lower) ==
    IF \/ Contains(error_lower, KwSyntax) /\ Contains(error_lower, KwError)
       \/ Contains(error_lower, KwUnexpected)
       \/ Contains(error_lower, KwInvalid) /\ Contains(error_lower, KwSyntax)
    THEN "QuerySyntaxError"
    ELSE IF Contains(error_lower, KwTimeout)
    THEN "QueryTimeoutError"
    ELSE IF \/ Contains(error_lower, KwTransaction)
            \/ Contains(error_lower, KwTxn)
            \/ Contains(error_lower, KwCommit)
            \/ Contains(error_lower, KwRollback)
    THEN "TransactionError"
    ELSE IF \/ Contains(error_lower, KwNotImplemented)
            \/ Contains(error_lower, KwNotYetImplemented)
    THEN "MiniGUError"
    ELSE "QueryExecutionError"

\* variant: what the try block raises is not caught, the Rust predicates decide
handle_exception_PredicatesDecide(error_msg, predAvail, tx, ni) ==
    LET inTry == RustPredicateCheck(predAvail, tx, ni)
    IN IF inTry = "none" THEN KeywordMatch(StrLower(error_msg)) ELSE inTry

\* _handle_exception(e): the exception it raises.  Whatever the try block
\* raises is an Exception, so `except Exception: pass` swallows it and the
\* keyword chain decides.
handle_exception(error_msg, predAvail, tx, ni) ==
    LET inTry == RustPredicateCheck(predAvail, tx, ni)
        swallowed == inTry \in TypedErrors \cup RawErrors \cup {"none"}
    IN IF swallowed THEN KeywordMatch(StrLower(error_msg)) ELSE inTry

(***************************************************************************)
(* Sanitizers                                                              *)
(***************************************************************************)
Digits == {"0", "1", "2", "3", "4", "5", "6", "7", "8", "9"}
AsciiLetters == {UpperChars[i] : i \in 1..Len(UpperChars)}
                    \cup {LowerChars[i] : i \in 1..Len(LowerChars)}
\* letters and digits outside ASCII, for which str.isalnum() is also true
\* (written by name: U+00E9, U+00DF, U+0663)
NonAsciiAlnum == {"e-acute", "sharp-s", "arabic-indic-3"}

\* str.isalnum() on one character
isalnum(c) == c \in AsciiLetters \cup Digits \cup NonAsciiAlnum

\* ''.join(c for c in s if keep(c))
RECURSIVE FilterChars(_, _)
FilterChars(s, drop) ==
    IF s = <<>> THEN <<>>
    ELSE IF Head(s) \in drop THEN FilterChars(Tail(s), drop)
    ELSE <<Head(s)>> \o FilterChars(Tail(s), drop)

\* variant: a rejected character is replaced by "_" and not dropped
RECURSIVE sanitize_graph_name_Replacing(_)
sanitize_graph_name_Replacing(name) ==
    IF name = <<>> THEN <<>>
    ELSE IF isalnum(Head(name)) \/ Head(name) = "_"
         THEN <<Head(name)>> \o sanitize_graph_name_Replacing(Tail(name))
         ELSE <<"_">> \o sanitize_graph_name_Replacing(Tail(name))

\* _sanitize_graph_name
RECURSIVE sanitize_graph_name(_)
sanitize_graph_name(name) ==
    IF name = <<>> THEN <<>>
    ELSE IF isalnum(Head(name)) \/ Head(name) = "_"
         THEN <<Head(name)>> \o sanitize_graph_name(Tail(name))
         ELSE sanitize_graph_name(Tail(name))

\* str.replace("..", ""): left to right, non-overlapping, one pass
\* A removal that takes out only the first ".." it meets and keeps the rest.
RECURSIVE RemoveDotDot_FirstOnly(_)
RemoveDotDot_FirstOnly(s) ==
    IF Len(s) < 2 THEN s
    ELSE IF s[1] = "." /\ s[2] = "." THEN SubSeq(s, 3, Len(s))
    ELSE <<s[1]>> \o RemoveDotDot_FirstOnly(Tail(s))

RECURSIVE RemoveDotDot(_)
RemoveDotDot(s) ==
    IF Len(s) < 2 THEN s
    ELSE IF s[1] = "." /\ s[2] = "." THEN RemoveDotDot(SubSeq(s, 3, Len(s)))
    ELSE <<s[1]>> \o RemoveDotDot(Tail(s))

\* "LF" and "CR" stand for the newline and carriage-return characters
DangerousPathChars == {"'", "\"", ";", "LF", "CR"}

\* variant: ".." is removed before the characters are stripped
sanitize_file_path_DotsFirst(path) ==
    FilterChars(RemoveDotDot(path), DangerousPathChars)

\* _sanitize_file_path
sanitize_file_path(path) == RemoveDotDot(FilterChars(path, DangerousPathChars))

(***************************************************************************)
(* Inputs                                                                  *)
(***************************************************************************)
Fragments == {
    <<"s","y","n","t","a","x">>,
    <<"S","y","n","t","a","x"," ","E","r","r","o","r">>,
    <<" ","e","r","r","o","r">>,
    <<"U","N","E","X","P","E","C","T","E","D">>,
    <<"i","n","v","a","l","i","d"," ">>,
    <<"t","i","m","e","o","u","t">>,
    <<"T","i","m","e","O","u","t">>,
    <<"t","r","a","n","s","a","c","t","i","o","n">>,
    <<"T","X","N">>,
    <<"c","o","m","m","i","t","t","e","d">>,
    <<"r","o","l","l","b","a","c","k">>,
    <<"n","o","t"," ","i","m","p","l","e","m","e","n","t","e","d">>,
    <<"N","o","t"," ","Y","e","t"," ","I","m","p","l","e","m","e","n","t","e","d">>,
    <<"n","o","t"," ">>,
    <<"d","i","s","k"," ","f","u","l","l">>,
    <<" ">> }

\* all concatenations of at most n fragments
RECURSIVE Messages(_)
Messages(n) ==
    IF n = 0 THEN {<<>>}
    ELSE LET shorter == Messages(n - 1)
         IN shorter \cup {m \o f : m \in shorter, f \in Fragments}

\* failure messages the native execute() raises in the handle model
ExecMsgs == {
    <<"S","y","n","t","a","x"," ","e","r","r","o","r">>,
    <<"c","o","m","m","i","t"," ","t","i","m","e","o","u","t">>,
    <<"d","i","s","k"," ","f","u","l","l">> }

Queries == { <<"M","A","T","C","H">> }

GraphNames == {
    <<"g","_","1","'",";">>,
    <<"'",";"," ","-","-">> }

Paths == {
    <<".",".","/","t","'",";">>,
    <<"'",";",".",".">> }

\* load() takes a list of records or a file path
LoadInputs == {[isPath |-> FALSE, path |-> <<>>]}
                 \cup {[isPath |-> TRUE, path |-> p] : p \in Paths}

\* what the engine does on PyMiniGU() followed by init()
ConnectResponses == {"ok", "alloc_fails", "init_fails"}

(***************************************************************************)
(* _BaseMiniGU.  A handler is an operator from the handle at its start to  *)
(* the handle at its end, with what it returned (ret) or raised (raised)   *)
(* and the native calls it made.                                           *)
(***************************************************************************)
Call(fn, on, arg) == [fn |-> fn, on |-> on, arg |-> arg]

NewInstance(initOk) ==
    [init |-> IF initOk THEN "ok" ELSE "failed", closeCalls |-> 0, released |-> FALSE]

\* the handle as the next handler finds it
Start ==
    [ri |-> rust_instance, conn |-> is_connected, insts |-> instances,
     calls |-> <<>>, raised |-> "none", ret |-> "None", msg |-> <<>>]

\* "Failed to connect to database: Rust bindings not available"
NoBindingsMsg ==
    <<"F","a","i","l","e","d"," ","t","o"," ","c","o","n","n","e","c","t"," ","t","o"," ","d","a","t","a","b","a","s","e",":">> \o
    <<" ","R","u","s","t"," ","b","i","n","d","i","n","g","s"," ","n","o","t"," ","a","v","a","i","l","a","b","l","e">>

\* mutant of _connect: a handle that kept the instance of a failed attempt
\* reports the failure again without asking the engine
BaseMiniGU_connect_CachedFailure(h, cr) ==
    IF h.conn THEN h
    ELSE IF ~HAS_RUST_BINDINGS \/ h.ri # 0
    THEN [h EXCEPT !.raised = "ConnectionError"]
    ELSE IF cr = "alloc_fails"
    THEN [h EXCEPT !.raised = "ConnectionError",
                   !.calls = Append(@, Call("PyMiniGU", 0, <<>>))]
    ELSE LET new == Len(h.insts) + 1
             made == [h EXCEPT !.ri = new,
                               !.insts = Append(@, NewInstance(cr = "ok")),
                               !.calls = @ \o <<Call("PyMiniGU", new, <<>>),
                                                Call("init", new, <<>>)>>]
         IN IF cr = "init_fails"
            THEN [made EXCEPT !.raised = "ConnectionError"]
            ELSE [made EXCEPT !.conn = TRUE]

\* _BaseMiniGU._connect
BaseMiniGU_connect(h, cr) ==
    IF h.conn THEN h
    ELSE IF ~HAS_RUST_BINDINGS
    THEN [h EXCEPT !.raised = "ConnectionError", !.msg = NoBindingsMsg]
    ELSE IF cr = "alloc_fails"
    THEN [h EXCEPT !.raised = "ConnectionError",
                   !.calls = Append(@, Call("PyMiniGU", 0, <<>>))]
    ELSE LET new == Len(h.insts) + 1
             made == [h EXCEPT !.ri = new,
                               !.insts = Append(@, NewInstance(cr = "ok")),
                               !.calls = @ \o <<Call("PyMiniGU", new, <<>>),
                                                Call("init", new, <<>>)>>]
         IN IF cr = "init_fails"
            THEN [made EXCEPT !.raised = "ConnectionError"]
            ELSE [made EXCEPT !.conn = TRUE]

\* mutant of _ensure_connected: every call makes a fresh connection
BaseMiniGU_ensure_connected_Always(h, cr) ==
    BaseMiniGU_connect([h EXCEPT !.conn = FALSE], cr)

\* _BaseMiniGU._ensure_connected
BaseMiniGU_ensure_connected(h, cr) ==
    IF ~h.conn THEN BaseMiniGU_connect(h, cr) ELSE h

\* _BaseMiniGU.close
BaseMiniGU_close(h, closeOk) ==
    IF h.ri # 0
    THEN LET called == [h EXCEPT !.insts[h.ri].closeCalls = @ + 1,
                                 !.calls = Append(@, Call("close", h.ri, <<>>))]
         IN IF closeOk
            THEN [called EXCEPT !.insts[h.ri].released = TRUE, !.conn = FALSE]
            ELSE [called EXCEPT !.raised = "NativeError"]
    ELSE [h EXCEPT !.conn = FALSE]

\* _BaseMiniGU.get_database_status
BaseMiniGU_get_database_status(h, cr) ==
    LET c == BaseMiniGU_ensure_connected(h, cr)
    IN IF c.raised # "none" THEN c ELSE [c EXCEPT !.ret = "status"]

\* _BaseMiniGU._execute_internal; er is the engine's response to execute():
\* ok, or the failure message with what the two Rust predicates do on it
BaseMiniGU_execute_internal(h, query, cr, er) ==
    LET c == BaseMiniGU_ensure_connected(h, cr)
    IN IF c.raised # "none" THEN c
       ELSE IF HAS_RUST_BINDINGS /\ c.ri # 0
       THEN LET called == [c EXCEPT !.calls = Append(@, Call("execute", c.ri, query))]
            IN IF er.ok
               THEN [called EXCEPT !.ret = "dict"]
               ELSE [called EXCEPT
                        !.msg = er.msg,
                        !.raised = handle_exception(er.msg, predicates_available,
                                                    er.tx, er.ni)]
       ELSE [c EXCEPT !.raised = "RuntimeError"]

CallPrefix == <<"C","A","L","L"," ","c","r","e","a","t","e","_","t","e","s","t","_",
                "g","r","a","p","h","(","'">>
CallSuffix == <<"'",")">>

\* variant: the statement embeds the name as the caller gave it
BaseMiniGU_create_graph_internal_RawName(h, name, cr, er) ==
    LET c == BaseMiniGU_ensure_connected(h, cr)
    IN IF c.raised # "none" THEN c
       ELSE IF HAS_RUST_BINDINGS /\ c.ri # 0
       THEN IF sanitize_graph_name(name) = <<>>
            THEN [c EXCEPT !.raised = "GraphError"]
            ELSE LET e == BaseMiniGU_execute_internal(
                              c, CallPrefix \o name \o CallSuffix, cr, er)
                 IN IF e.raised # "none"
                    THEN [e EXCEPT !.raised = "GraphError"]
                    ELSE [e EXCEPT !.ret = "None"]
       ELSE [c EXCEPT !.raised = "RuntimeError"]

\* _BaseMiniGU._create_graph_internal
BaseMiniGU_create_graph_internal(h, name, cr, er) ==
    LET c == BaseMiniGU_ensure_connected(h, cr)
    IN IF c.raised # "none" THEN c
       ELSE IF HAS_RUST_BINDINGS /\ c.ri # 0
       THEN LET sanitized_name == sanitize_graph_name(name)
            IN IF sanitized_name = <<>>
               THEN [c EXCEPT !.raised = "GraphError"]
               ELSE LET e == BaseMiniGU_execute_internal(
                                 c, CallPrefix \o sanitized_name \o CallSuffix, cr, er)
                    IN IF e.raised # "none"
                       THEN [e EXCEPT !.raised = "GraphError"]
                       ELSE [e EXCEPT !.ret = "None"]
       ELSE [c EXCEPT !.raised = "RuntimeError"]

\* _BaseMiniGU._begin_transaction_internal (as _commit_internal and
\* _rollback_internal): called by no public method
BaseMiniGU_begin_transaction_internal(h) ==
    IF h.ri # 0 THEN h ELSE [h EXCEPT !.raised = "RuntimeError"]

\* "Transaction functionality is not yet implemented. This feature is planned
\* but not yet implemented."
TransactionMsg ==
    <<"T","r","a","n","s","a","c","t","i","o","n"," ","f","u","n","c","t","i","o",
      "n","a","l","i","t","y"," ","i","s"," ","n","o","t"," ","y","e","t"," ","i",
      "m","p","l","e","m","e","n","t","e","d",".">>

(***************************************************************************)
(* class MiniGU(_BaseMiniGU)                                               *)
(***************************************************************************)
\* mutant of MiniGU.begin_transaction: delegates to the placeholder
\* _begin_transaction_internal, which simulates success
MiniGU_begin_transaction_Simulated(h) ==
    BaseMiniGU_begin_transaction_internal(h)

\* MiniGU.begin_transaction
MiniGU_begin_transaction(h) ==
    [h EXCEPT !.raised = "TransactionError", !.msg = TransactionMsg]

\* MiniGU.commit
MiniGU_commit(h) ==
    [h EXCEPT !.raised = "TransactionError", !.msg = TransactionMsg]

\* MiniGU.rollback
MiniGU_rollback(h) ==
    [h EXCEPT !.raised = "TransactionError", !.msg = TransactionMsg]
\* MiniGU.__exit__: self.close()
MiniGU_exit(h, closeOk) == BaseMiniGU_close(h, closeOk)

\* MiniGU.execute
MiniGU_execute(h, query, cr, er) ==
    LET result_dict == BaseMiniGU_execute_internal(h, query, cr, er)
    IN IF result_dict.raised # "none" THEN result_dict
       ELSE [result_dict EXCEPT !.ret = "QueryResult"]

\* MiniGU.create_graph
MiniGU_create_graph(h, name, cr, er) ==
    LET r == BaseMiniGU_create_graph_internal(h, name, cr, er)
    IN IF r.raised # "none"
       THEN [r EXCEPT !.raised = "none", !.ret = "False"]
       ELSE [r EXCEPT !.ret = "True"]

\* MiniGU.load; fileOk: the engine's load_from_file / load_data succeeds
MiniGU_load(h, data, cr, fileOk) ==
    LET c == BaseMiniGU_ensure_connected(h, cr)
    IN IF c.raised # "none" THEN c
       ELSE IF HAS_RUST_BINDINGS /\ c.ri # 0
       THEN IF data.isPath
            THEN LET sanitized_path == sanitize_file_path(data.path)
                 IN IF sanitized_path = <<>>
                    THEN [c EXCEPT !.ret = "False"]
                    ELSE [c EXCEPT
                            !.calls = Append(@, Call("load_from_file", c.ri,
                                                     sanitized_path)),
                            !.ret = IF fileOk THEN "True" ELSE "False"]
            ELSE [c EXCEPT !.calls = Append(@, Call("load_data", c.ri, <<>>)),
                           !.ret = IF fileOk THEN "True" ELSE "False"]
       ELSE [c EXCEPT !.raised = "RuntimeError"]

\* MiniGU.save; fileOk: the engine's save_to_file succeeds
MiniGU_save(h, path, cr, fileOk) ==
    LET c == BaseMiniGU_ensure_connected(h, cr)
    IN IF c.raised # "none" THEN c
       ELSE IF HAS_RUST_BINDINGS /\ c.ri # 0
       THEN LET sanitized_path == sanitize_file_path(path)
            IN IF sanitized_path = <<>>
               THEN [c EXCEPT !.ret = "False"]
               ELSE [c EXCEPT
                       !.calls = Append(@, Call("save_to_file", c.ri, sanitized_path)),
                       !.ret = IF fileOk THEN "True" ELSE "False"]
       ELSE [c EXCEPT !.raised = "RuntimeError"]

(***************************************************************************)
(* class AsyncMiniGU(_BaseMiniGU)                                          *)
(***************************************************************************)
\* AsyncMiniGU.begin_transaction
AsyncMiniGU_begin_transaction(h) ==
    [h EXCEPT !.raised = "TransactionError", !.msg = TransactionMsg]

\* AsyncMiniGU.commit
AsyncMiniGU_commit(h) ==
    [h EXCEPT !.raised = "TransactionError", !.msg = TransactionMsg]

\* AsyncMiniGU.rollback
AsyncMiniGU_rollback(h) ==
    [h EXCEPT !.raised = "TransactionError", !.msg = TransactionMsg]

\* variant: close keeps a failure of the native close to itself
AsyncMiniGU_close_Guarded(h, closeOk) ==
    IF h.ri # 0
    THEN [h EXCEPT !.insts[h.ri].closeCalls = @ + 1,
                   !.insts[h.ri].released = closeOk,
                   !.calls = Append(@, Call("close", h.ri, <<>>)),
                   !.conn = FALSE]
    ELSE [h EXCEPT !.conn = FALSE]

\* AsyncMiniGU.close
AsyncMiniGU_close(h, closeOk) ==
    IF h.ri # 0
    THEN LET called == [h EXCEPT !.insts[h.ri].closeCalls = @ + 1,
                                 !.calls = Append(@, Call("close", h.ri, <<>>))]
         IN IF closeOk
            THEN [called EXCEPT !.insts[h.ri].released = TRUE, !.conn = FALSE]
            ELSE [called EXCEPT !.raised = "NativeError"]
    ELSE [h EXCEPT !.conn = FALSE]

\* AsyncMiniGU.__aexit__: await self.close()
AsyncMiniGU_aexit(h, closeOk) == AsyncMiniGU_close(h, closeOk)

\* AsyncMiniGU.execute
AsyncMiniGU_execute(h, query, cr, er) ==
    LET result_dict == BaseMiniGU_execute_internal(h, query, cr, er)
    IN IF result_dict.raised # "none" THEN result_dict
       ELSE [result_dict EXCEPT !.ret = "QueryResult"]

\* AsyncMiniGU.create_graph
AsyncMiniGU_create_graph(h, name, cr, er) ==
    LET r == BaseMiniGU_create_graph_internal(h, name, cr, er)
    IN IF r.raised # "none"
       THEN [r EXCEPT !.raised = "none", !.ret = "False"]
       ELSE [r EXCEPT !.ret = "True"]

\* AsyncMiniGU.load; fileOk: the engine's load_from_file / load_data succeeds
AsyncMiniGU_load(h, data, cr, fileOk) ==
    LET c == BaseMiniGU_ensure_connected(h, cr)
    IN IF c.raised # "none" THEN c
       ELSE IF HAS_RUST_BINDINGS /\ c.ri # 0
       THEN IF data.isPath
            THEN LET sanitized_path == sanitize_file_path(data.path)
                 IN IF sanitized_path = <<>>
                    THEN [c EXCEPT !.ret = "False"]
                    ELSE [c EXCEPT
                            !.calls = Append(@, Call("load_from_file", c.ri,
                                                     sanitized_path)),
                            !.ret = IF fileOk THEN "True" ELSE "False"]
            ELSE [c EXCEPT !.calls = Append(@, Call("load_data", c.ri, <<>>)),
                           !.ret = IF fileOk THEN "True" ELSE "False"]
       ELSE [c EXCEPT !.raised = "RuntimeError"]

\* AsyncMiniGU.save; fileOk: the engine's save_to_file succeeds
AsyncMiniGU_save(h, path, cr, fileOk) ==
    LET c == BaseMiniGU_ensure_connected(h, cr)
    IN IF c.raised # "none" THEN c
       ELSE IF HAS_RUST_BINDINGS /\ c.ri # 0
       THEN LET sanitized_path == sanitize_file_path(path)
            IN IF sanitized_path = <<>>
               THEN [c EXCEPT !.ret = "False"]
               ELSE [c EXCEPT
                       !.calls = Append(@, Call("save_to_file", c.ri, sanitized_path)),
                       !.ret = IF fileOk THEN "True" ELSE "False"]
       ELSE [c EXCEPT !.raised = "RuntimeError"]

(***************************************************************************)
(* The state machine: one step is one call of a facade operation, run to   *)
(* completion (sequential use of one handle).                              *)
(***************************************************************************)
\* the engine answers PyMiniGU() and init() only when the handle asks
ConnectAnswers ==
    IF is_connected \/ ~HAS_RUST_BINDINGS THEN {"ok"} ELSE ConnectResponses

\* the Rust predicates answer only when they were imported
PredAnswers == IF predicates_available THEN PredOutcomes ELSE {"false"}

\* is_not_implemented_error is asked only after is_transaction_error said no
ExecResponses ==
    {[ok |-> TRUE, msg |-> <<>>, tx |-> "false", ni |-> "false"]}
        \cup [ok : {FALSE}, msg : ExecMsgs, tx : {"false"}, ni : PredAnswers]
        \cup [ok : {FALSE}, msg : ExecMsgs, tx : PredAnswers, ni : {"false"}]

Facades == {"MiniGU", "AsyncMiniGU"}

\* _BaseMiniGU.__init__, for either class, under either state of the imports
Init ==
    /\ facade \in Facades
    /\ HAS_RUST_BINDINGS \in BOOLEAN
    /\ predicates_available \in BOOLEAN
    /\ predicates_available => HAS_RUST_BINDINGS
    /\ rust_instance = 0
    /\ is_connected = FALSE
    /\ instances = <<>>
    /\ close_called = FALSE
    /\ op = "init"
    /\ outcome = "None"
    /\ calls = <<>>
    /\ msg = <<>>
    /\ input = <<>>
    /\ output = <<>>
    /\ qr = <<>>
    /\ stored_data = <<>>
    /\ store_access = {}
    /\ pc = <<>>
    /\ mirror = <<>>

\* the native close() calls made so far
RECURSIVE CloseCalls(_)
CloseCalls(insts) ==
    IF insts = <<>> THEN 0 ELSE Head(insts).closeCalls + CloseCalls(Tail(insts))

\* the run stays within the bounds
WithinBounds(h) ==
    /\ Len(h.insts) <= MaxInst
    /\ CloseCalls(h.insts) <= MaxCloseCalls

\* the operations that call close()
CloseOps == {"close", "__exit__", "__aexit__"}

\* the handle and the ghosts after handler `name` ended in h
Finish(name, h) ==
    /\ WithinBounds(h)
    /\ rust_instance' = h.ri
    /\ is_connected' = h.conn
    /\ instances' = h.insts
    /\ close_called' = (close_called \/ name \in CloseOps)
    /\ op' = name
    /\ outcome' = (IF h.raised # "none" THEN h.raised ELSE h.ret)
    /\ calls' = h.calls
    /\ msg' = h.msg
    /\ UNCHANGED <<stored_data, store_access, pc, facade, HAS_RUST_BINDINGS, predicates_available, Unused>>

SyncExecute ==
    /\ facade = "MiniGU"
    /\ \E q \in Queries, cr \in ConnectAnswers, er \in ExecResponses :
          Finish("execute", MiniGU_execute(Start, q, cr, er))

SyncCreateGraph ==
    /\ facade = "MiniGU"
    /\ \E n \in GraphNames, cr \in ConnectAnswers, er \in ExecResponses :
          Finish("create_graph", MiniGU_create_graph(Start, n, cr, er))

SyncLoad ==
    /\ facade = "MiniGU"
    /\ \E d \in LoadInputs, cr \in ConnectAnswers, fileOk \in BOOLEAN :
          Finish("load", MiniGU_load(Start, d, cr, fileOk))

SyncSave ==
    /\ facade = "MiniGU"
    /\ \E p \in Paths, cr \in ConnectAnswers, fileOk \in BOOLEAN :
          Finish("save", MiniGU_save(Start, p, cr, fileOk))

SyncClose ==
    /\ facade = "MiniGU"
    /\ \E closeOk \in BOOLEAN : Finish("close", BaseMiniGU_close(Start, closeOk))

AsyncExecute ==
    /\ facade = "AsyncMiniGU"
    /\ \E q \in Queries, cr \in ConnectAnswers, er \in ExecResponses :
          Finish("execute", AsyncMiniGU_execute(Start, q, cr, er))

AsyncCreateGraph ==
    /\ facade = "AsyncMiniGU"
    /\ \E n \in GraphNames, cr \in ConnectAnswers, er \in ExecResponses :
          Finish("create_graph", AsyncMiniGU_create_graph(Start, n, cr, er))

AsyncLoad ==
    /\ facade = "AsyncMiniGU"
    /\ \E d \in LoadInputs, cr \in ConnectAnswers, fileOk \in BOOLEAN :
          Finish("load", AsyncMiniGU_load(Start, d, cr, fileOk))

AsyncSave ==
    /\ facade = "AsyncMiniGU"
    /\ \E p \in Paths, cr \in ConnectAnswers, fileOk \in BOOLEAN :
          Finish("save", AsyncMiniGU_save(Start, p, cr, fileOk))

AsyncClose ==
    /\ facade = "AsyncMiniGU"
    /\ \E closeOk \in BOOLEAN : Finish("close", AsyncMiniGU_close(Start, closeOk))

SyncBeginTransaction ==
    /\ facade = "MiniGU"
    /\ Finish("begin_transaction", MiniGU_begin_transaction(Start))

SyncCommit ==
    /\ facade = "MiniGU"
    /\ Finish("commit", MiniGU_commit(Start))

SyncRollback ==
    /\ facade = "MiniGU"
    /\ Finish("rollback", MiniGU_rollback(Start))

AsyncBeginTransaction ==
    /\ facade = "AsyncMiniGU"
    /\ Finish("begin_transaction", AsyncMiniGU_begin_transaction(Start))

AsyncCommit ==
    /\ facade = "AsyncMiniGU"
    /\ Finish("commit", AsyncMiniGU_commit(Start))

AsyncRollback ==
    /\ facade = "AsyncMiniGU"
    /\ Finish("rollback", AsyncMiniGU_rollback(Start))

\* the end of a with block
SyncExit ==
    /\ facade = "MiniGU"
    /\ \E closeOk \in BOOLEAN : Finish("__exit__", MiniGU_exit(Start, closeOk))

\* the end of an async with block
AsyncExit ==
    /\ facade = "AsyncMiniGU"
    /\ \E closeOk \in BOOLEAN : Finish("__aexit__", AsyncMiniGU_aexit(Start, closeOk))

\* get_database_status is inherited by both classes
GetDatabaseStatus ==
    \E cr \in ConnectAnswers :
        Finish("get_database_status", BaseMiniGU_get_database_status(Start, cr))

Next ==
    \/ SyncExecute
    \/ SyncCreateGraph
    \/ SyncLoad
    \/ SyncSave
    \/ SyncClose
    \/ SyncExit
    \/ AsyncExit
    \/ AsyncExecute
    \/ AsyncCreateGraph
    \/ AsyncLoad
    \/ AsyncSave
    \/ AsyncClose
    \/ SyncBeginTransaction
    \/ SyncCommit
    \/ SyncRollback
    \/ AsyncBeginTransaction
    \/ AsyncCommit
    \/ AsyncRollback
    \/ GetDatabaseStatus

Spec == Init /\ [][Next]_vars

(***************************************************************************)
(* The classifier alone: every message of at most MaxFrags fragments is    *)
(* handed to _handle_exception once.                                       *)
(***************************************************************************)
ClassifyInit ==
    /\ facade = "MiniGU"
    /\ HAS_RUST_BINDINGS = TRUE
    /\ predicates_available \in BOOLEAN
    /\ rust_instance = 0
    /\ is_connected = FALSE
    /\ instances = <<>>
    /\ close_called = FALSE
    /\ op = "init"
    /\ outcome = "None"
    /\ calls = <<>>
    /\ msg \in Messages(MaxFrags)
    /\ input = <<>>
    /\ output = <<>>
    /\ qr = <<>>
    /\ stored_data = <<>>
    /\ store_access = {}
    /\ pc = <<>>
    /\ mirror = <<>>

\* input keeps what is_transaction_error(e) and is_not_implemented_error(e) did
Classify ==
    /\ op = "init"
    /\ \E tx \in PredAnswers :
          \E ni \in (IF tx = "false" THEN PredAnswers ELSE {"false"}) :
             /\ outcome' = handle_exception(msg, predicates_available, tx, ni)
             /\ input' = <<tx, ni>>
    /\ op' = "_handle_exception"
    /\ UNCHANGED <<stored_data, store_access, pc, facade, HAS_RUST_BINDINGS, predicates_available, rust_instance,
                   is_connected, instances, close_called, calls, msg,
                   output, qr, mirror>>

ClassifyNext == Classify

SpecClassify == ClassifyInit /\ [][ClassifyNext]_vars

(***************************************************************************)
(* The sanitizers alone: every string of at most MaxStrLen characters of   *)
(* SanAlphabet, and the strings of the repository's tests, is handed once  *)
(* to _sanitize_graph_name, to _sanitize_file_path or, as the graph name,  *)
(* to create_graph on a fresh handle.                                      *)
(***************************************************************************)
SanAlphabet == {"a", "Z", "7", "_", "'", ";", ".", "/", " ", "(", "e-acute", "LF"}

\* all strings over SanAlphabet of length at most n
RECURSIVE Strings(_)
Strings(n) ==
    IF n = 0 THEN {<<>>}
    ELSE LET shorter == Strings(n - 1)
         IN shorter \cup {Append(t, c) : t \in shorter, c \in SanAlphabet}

ExNameInjection ==
    <<"t","e","s","t","_","g","r","a","p","h","'",";"," ","D","R","O","P",
      " ","T","A","B","L","E"," ","u","s","e","r","s",";"," ","-","-">>
ExNameInjectionOut ==
    <<"t","e","s","t","_","g","r","a","p","h","D","R","O","P","T","A","B",
      "L","E","u","s","e","r","s">>
ExNameOnlySpecial ==
    <<"'",";"," ","-","-">>
ExPathQuote ==
    <<"t","e","s","t","'",";",".","c","s","v">>
ExPathNewline ==
    <<"t","e","s","t","LF",".","c","s","v">>
ExPathTraversal ==
    <<".",".","/","t","e","s","t",".","c","s","v">>
ExPathClean ==
    <<"t","e","s","t",".","c","s","v">>
ExPathTraversalOut ==
    <<"/","t","e","s","t",".","c","s","v">>
ExPathNested ==
    <<".",".",".",".","/","/">>
ExPathAllKinds ==
    <<"a","\"","b","CR","'",".",".",";","c">>

ExampleInputs == {ExNameInjection, ExNameOnlySpecial, ExPathQuote, ExPathNewline,
                  ExPathTraversal, ExPathClean, ExPathNested, ExPathAllKinds}

SanitizeInit ==
    /\ facade \in Facades
    /\ HAS_RUST_BINDINGS = TRUE
    /\ predicates_available = FALSE
    /\ rust_instance = 0
    /\ is_connected = FALSE
    /\ instances = <<>>
    /\ close_called = FALSE
    /\ op = "init"
    /\ outcome = "None"
    /\ calls = <<>>
    /\ msg = <<>>
    /\ input \in Strings(MaxStrLen) \cup ExampleInputs
    /\ output = <<>>
    /\ qr = <<>>
    /\ stored_data = <<>>
    /\ store_access = {}
    /\ pc = <<>>
    /\ mirror = <<>>

ApplySanitizeGraphName ==
    /\ op = "init"
    /\ facade = "MiniGU"
    /\ op' = "_sanitize_graph_name"
    /\ output' = sanitize_graph_name(input)
    /\ UNCHANGED <<stored_data, store_access, pc, facade, HAS_RUST_BINDINGS, predicates_available, rust_instance,
                   is_connected, instances, close_called, outcome, calls, msg,
                   input, qr, mirror>>

ApplySanitizeFilePath ==
    /\ op = "init"
    /\ facade = "MiniGU"
    /\ op' = "_sanitize_file_path"
    /\ output' = sanitize_file_path(input)
    /\ UNCHANGED <<stored_data, store_access, pc, facade, HAS_RUST_BINDINGS, predicates_available, rust_instance,
                   is_connected, instances, close_called, outcome, calls, msg,
                   input, qr, mirror>>

\* create_graph(input) as the first operation on a handle of either class
ApplyCreateGraph ==
    /\ op = "init"
    /\ \E cr \in ConnectAnswers, er \in ExecResponses :
          Finish("create_graph",
                 IF facade = "MiniGU"
                 THEN MiniGU_create_graph(Start, input, cr, er)
                 ELSE AsyncMiniGU_create_graph(Start, input, cr, er))

SanitizeNext ==
    \/ ApplySanitizeGraphName
    \/ ApplySanitizeFilePath
    \/ ApplyCreateGraph

SpecSanitize == SanitizeInit /\ [][SanitizeNext]_vars

(***************************************************************************)
(* python/minigu.py: MiniGU._format_insert_data                            *)
(*                                                                         *)
(* A dict is the sequence of its <<key, value>> pairs in insertion order;  *)
(* a value is a str, an int or a bool.                                     *)
(***************************************************************************)
MaxRecords == 2     \* records handed to _format_insert_data

DigitChar == <<"0", "1", "2", "3", "4", "5", "6", "7", "8", "9">>

\* str(n) for an int n >= 0
RECURSIVE IntStr(_)
IntStr(n) ==
    IF n < 10 THEN <<DigitChar[n + 1]>>
    ELSE IntStr(n \div 10) \o <<DigitChar[(n % 10) + 1]>>

\* str(v), as the f-string formats v
PyStr(v) ==
    CASE v.t = "str" -> v.s
      [] v.t = "int" -> IntStr(v.n)
      [] v.t = "bool" -> IF v.b THEN <<"T","r","u","e">> ELSE <<"F","a","l","s","e">>

\* sep.join(parts)
RECURSIVE Join(_, _)
Join(parts, sep) ==
    IF parts = <<>> THEN <<>>
    ELSE IF Len(parts) = 1 THEN parts[1]
    ELSE parts[1] \o sep \o Join(Tail(parts), sep)

KeyLabel == <<"l","a","b","e","l">>
DefaultLabel == <<"N","o","d","e">>

\* item.get("label", "Node")
GetLabel(item) ==
    IF \E i \in DOMAIN item : item[i][1] = KeyLabel
    THEN item[CHOOSE i \in DOMAIN item : item[i][1] = KeyLabel][2]
    ELSE [t |-> "str", s |-> DefaultLabel]

\* [... for k, v in item.items() if k != "label"]
RECURSIVE WithoutLabel(_)
WithoutLabel(item) ==
    IF item = <<>> THEN <<>>
    ELSE IF Head(item)[1] = KeyLabel THEN WithoutLabel(Tail(item))
    ELSE <<Head(item)>> \o WithoutLabel(Tail(item))

\* f"{k}: '{v}'"
FormatProp(kv) == kv[1] \o <<":", " ", "'">> \o PyStr(kv[2]) \o <<"'">>

\* f"({label} {{{props}}})"
FormatRecord(item) ==
    LET label == PyStr(GetLabel(item))
        kept == WithoutLabel(item)
        props == Join([i \in DOMAIN kept |-> FormatProp(kept[i])], <<",", " ">>)
    IN <<"(">> \o label \o <<" ", "{">> \o props \o <<"}", ")">>

\* MiniGU._format_insert_data
format_insert_data(data) ==
    Join([i \in DOMAIN data |-> FormatRecord(data[i])], <<",", " ">>)

\* {"label": "Person", "name": "Alice", "age": 30}
RecAlice ==
    <<<<<<"l","a","b","e","l">>, [t |-> "str", s |-> <<"P","e","r","s","o","n">>]>>,
      <<<<"n","a","m","e">>, [t |-> "str", s |-> <<"A","l","i","c","e">>]>>,
      <<<<"a","g","e">>, [t |-> "int", n |-> 30]>>>>
\* {"name": "Person1", "age": 30, "label": "Person"}
RecPerson1 ==
    <<<<<<"n","a","m","e">>, [t |-> "str", s |-> <<"P","e","r","s","o","n","1">>]>>,
      <<<<"a","g","e">>, [t |-> "int", n |-> 30]>>,
      <<<<"l","a","b","e","l">>, [t |-> "str", s |-> <<"P","e","r","s","o","n">>]>>>>
\* {"name": "Company1", "founded": 2010, "label": "Company"}
RecCompany1 ==
    <<<<<<"n","a","m","e">>, [t |-> "str", s |-> <<"C","o","m","p","a","n","y","1">>]>>,
      <<<<"f","o","u","n","d","e","d">>, [t |-> "int", n |-> 2010]>>,
      <<<<"l","a","b","e","l">>, [t |-> "str", s |-> <<"C","o","m","p","a","n","y">>]>>>>
\* {"name": "O'Neil"}
RecQuote ==
    <<<<<<"n","a","m","e">>, [t |-> "str", s |-> <<"O","'","N","e","i","l">>]>>>>
\* {"label": "P", "v": "x'}), (Q {w: 'y"}
RecBreakout ==
    <<<<<<"l","a","b","e","l">>, [t |-> "str", s |-> <<"P">>]>>,
      <<<<"v">>, [t |-> "str", s |-> <<"x","'","}",")",","," ","(","Q"," ","{","w",":"," ","'","y">>]>>>>
\* {}
RecEmpty ==
    <<>>
\* {"label": "Flag", "ok": True}
RecBool ==
    <<<<<<"l","a","b","e","l">>, [t |-> "str", s |-> <<"F","l","a","g">>]>>,
      <<<<"o","k">>, [t |-> "bool", b |-> TRUE]>>>>
\* {"n": 0}
RecZero ==
    <<<<<<"n">>, [t |-> "int", n |-> 0]>>>>
\* {"label": 7}
RecIntLabel ==
    <<<<<<"l","a","b","e","l">>, [t |-> "int", n |-> 7]>>>>
\* {"label": "L", "s": "plain"}
RecPlain ==
    <<<<<<"l","a","b","e","l">>, [t |-> "str", s |-> <<"L">>]>>,
      <<<<"s">>, [t |-> "str", s |-> <<"p","l","a","i","n">>]>>>>

InsertRecords == {RecAlice, RecPerson1, RecCompany1, RecQuote, RecBreakout,
                  RecEmpty, RecBool, RecZero, RecIntLabel, RecPlain}

\* the lists of at most n records
RECURSIVE RecordLists(_)
RecordLists(n) ==
    IF n = 0 THEN {<<>>}
    ELSE LET shorter == RecordLists(n - 1)
         IN shorter \cup {Append(l, r) : l \in shorter, r \in InsertRecords}

InsertInit ==
    /\ facade = "python.MiniGU"
    /\ HAS_RUST_BINDINGS = TRUE
    /\ predicates_available = FALSE
    /\ rust_instance = 0
    /\ is_connected = FALSE
    /\ instances = <<>>
    /\ close_called = FALSE
    /\ op = "init"
    /\ outcome = "None"
    /\ calls = <<>>
    /\ msg = <<>>
    /\ input \in RecordLists(MaxRecords)
    /\ output = <<>>
    /\ qr = <<>>
    /\ stored_data = <<>>
    /\ store_access = {}
    /\ pc = <<>>
    /\ mirror = <<>>

FormatInsertData ==
    /\ op = "init"
    /\ op' = "_format_insert_data"
    /\ output' = format_insert_data(input)
    /\ outcome' = "str"
    /\ UNCHANGED <<stored_data, store_access, pc, facade, HAS_RUST_BINDINGS, predicates_available, rust_instance,
                   is_connected, instances, close_called, calls, msg,
                   input, qr, mirror>>

InsertNext == FormatInsertData

SpecInsert == InsertInit /\ [][InsertNext]_vars

(***************************************************************************)
(* class QueryResult of both modules, and the QueryResult that execute     *)
(* builds from the engine's result dict                                    *)
(*                                                                         *)
(* A list is a sequence, a dict a function on its keys; a QueryResult      *)
(* object is the record of its attributes.  The empty list, the empty dict *)
(* and None are all written <<>>.                                          *)
(***************************************************************************)
MaxCols == 2        \* columns of a schema, values of a row
MaxRows == 2        \* rows of a result

ColumnNames == {"a", "b"}
CellValues == {"1", "2"}

Min(a, b) == IF a <= b THEN a ELSE b

\* the sequences over S of length at most n
RECURSIVE SeqsUpTo(_, _)
SeqsUpTo(S, n) ==
    IF n = 0 THEN {<<>>}
    ELSE LET shorter == SeqsUpTo(S, n - 1)
         IN shorter \cup {Append(t, x) : t \in shorter, x \in S}

Schemas == SeqsUpTo({[name |-> c, type |-> "String"] : c \in ColumnNames}, MaxCols)
DataSets == SeqsUpTo(SeqsUpTo(CellValues, MaxCols), MaxRows)
SomeMetrics == [execution_time_ms |-> "1"]

\* what the engine's execute() returns: a dict with schema, data and metrics,
\* or one without the data and metrics keys
EngineResults ==
    {[schema |-> sc, data |-> d, metrics |-> SomeMetrics] :
        sc \in Schemas, d \in DataSets}
    \cup {[schema |-> sc] : sc \in Schemas}

\* d.get(k, default)
DictGet(d, k, default) == IF k \in DOMAIN d THEN d[k] ELSE default

\* x or default
PyOr(x, default) == IF x = <<>> THEN default ELSE x

\* minigu/python/minigu.py: QueryResult.__init__
QueryResult_init(schema, data, metrics) ==
    [schema |-> schema, data |-> data, metrics |-> metrics]

\* python/minigu.py: QueryResult.__init__
python_QueryResult_init(schema, data, metrics) ==
    [schema |-> PyOr(schema, <<>>),
     data |-> PyOr(data, <<>>),
     metrics |-> PyOr(metrics, <<>>),
     row_count |-> Len(PyOr(data, <<>>))]

\* dict(zip(keys, vals)): zip stops at the shorter argument, a later pair
\* replaces an earlier pair with the same key
DictZip(keys, vals) ==
    LET n == Min(Len(keys), Len(vals))
    IN [k \in {keys[i] : i \in 1..n} |->
           vals[CHOOSE i \in 1..n :
                  /\ keys[i] = k
                  /\ \A j \in (i + 1)..n : keys[j] # k]]

\* variant: to_list hands the rows out once, like a cursor
python_QueryResult_to_list_Consuming(self) ==
    [self |-> [self EXCEPT !.data = <<>>],
     ret |-> IF self.schema = <<>> \/ self.data = <<>> THEN <<>>
             ELSE LET column_names == [i \in DOMAIN self.schema |-> self.schema[i].name]
                  IN [r \in DOMAIN self.data |-> DictZip(column_names, self.data[r])]]

\* python/minigu.py: QueryResult.to_list; the object after the call and the
\* value returned
python_QueryResult_to_list(self) ==
    [self |-> self,
     ret |-> IF self.schema = <<>> \/ self.data = <<>> THEN <<>>
             ELSE LET column_names == [i \in DOMAIN self.schema |-> self.schema[i].name]
                  IN [r \in DOMAIN self.data |-> DictZip(column_names, self.data[r])]]

\* python/minigu.py: QueryResult.to_dict
python_QueryResult_to_dict(self) ==
    [self |-> self,
     ret |-> [schema |-> self.schema, data |-> self.data,
              metrics |-> self.metrics, row_count |-> self.row_count]]

\* the QueryResult that execute of the class named by facade returns for the
\* engine's result dict
ExecuteResult(result) ==
    IF facade = "python.MiniGU"
    THEN python_QueryResult_init(DictGet(result, "schema", <<>>),
                                 DictGet(result, "data", <<>>),
                                 DictGet(result, "metrics", <<>>))
    ELSE QueryResult_init(DictGet(result, "schema", <<>>),
                          DictGet(result, "data", <<>>),
                          DictGet(result, "metrics", <<>>))

ResultInit ==
    /\ facade \in Facades \cup {"python.MiniGU"}
    /\ HAS_RUST_BINDINGS = TRUE
    /\ predicates_available = FALSE
    /\ rust_instance = 0
    /\ is_connected = FALSE
    /\ instances = <<>>
    /\ close_called = FALSE
    /\ op = "init"
    /\ outcome = "None"
    /\ calls = <<>>
    /\ msg = <<>>
    /\ input = <<>>
    /\ output = <<>>
    /\ qr = <<>>
    /\ stored_data = <<>>
    /\ store_access = {}
    /\ pc = <<>>
    /\ mirror = <<>>

ResultUnchanged ==
    UNCHANGED <<stored_data, store_access, pc, facade, HAS_RUST_BINDINGS, predicates_available, rust_instance,
                is_connected, instances, close_called, calls, msg, mirror>>

\* execute returns a QueryResult for the engine's result dict
ResultExecute ==
    /\ op = "init"
    /\ \E result \in EngineResults :
          /\ input' = result
          /\ qr' = ExecuteResult(result)
    /\ op' = "execute"
    /\ outcome' = "QueryResult"
    /\ output' = <<>>
    /\ ResultUnchanged

\* the caller calls result.to_list()
ResultToList ==
    /\ op # "init"
    /\ op' = "to_list"
    /\ IF facade = "python.MiniGU"
       THEN LET r == python_QueryResult_to_list(qr)
            IN qr' = r.self /\ output' = r.ret /\ outcome' = "list"
       ELSE outcome' = "AttributeError" /\ UNCHANGED <<qr, output>>
    /\ UNCHANGED input
    /\ ResultUnchanged

\* the caller calls result.to_dict()
ResultToDict ==
    /\ op # "init"
    /\ op' = "to_dict"
    /\ IF facade = "python.MiniGU"
       THEN LET r == python_QueryResult_to_dict(qr)
            IN qr' = r.self /\ output' = r.ret /\ outcome' = "dict"
       ELSE outcome' = "AttributeError" /\ UNCHANGED <<qr, output>>
    /\ UNCHANGED input
    /\ ResultUnchanged

\* the caller reads result.row_count
ResultRowCount ==
    /\ op # "init"
    /\ op' = "row_count"
    /\ outcome' = IF "row_count" \in DOMAIN qr THEN "int" ELSE "AttributeError"
    /\ UNCHANGED <<qr, input, output>>
    /\ ResultUnchanged

ResultNext ==
    \/ ResultExecute
    \/ ResultToList
    \/ ResultToDict
    \/ ResultRowCount

SpecResult == ResultInit /\ [][ResultNext]_vars

(***************************************************************************)
(* A MiniGU handle and an AsyncMiniGU handle side by side: every step asks *)
(* both for the same operation with the same arguments, and the engine     *)
(* answers both alike.  The MiniGU handle is held by the variables of the  *)
(* lifecycle, the AsyncMiniGU handle by mirror.                            *)
(***************************************************************************)
\* the AsyncMiniGU handle as the next handler finds it
MirrorStart ==
    [ri |-> mirror.ri, conn |-> mirror.conn, insts |-> mirror.insts,
     calls |-> <<>>, raised |-> "none", ret |-> "None", msg |-> <<>>]

\* what is seen of a handle after a handler ended in h
Seen(h) ==
    [ri |-> h.ri, conn |-> h.conn, insts |-> h.insts,
     outcome |-> (IF h.raised # "none" THEN h.raised ELSE h.ret),
     calls |-> h.calls, msg |-> h.msg]

PairInit ==
    /\ facade = "MiniGU"
    /\ HAS_RUST_BINDINGS \in BOOLEAN
    /\ predicates_available \in BOOLEAN
    /\ predicates_available => HAS_RUST_BINDINGS
    /\ rust_instance = 0
    /\ is_connected = FALSE
    /\ instances = <<>>
    /\ close_called = FALSE
    /\ op = "init"
    /\ outcome = "None"
    /\ calls = <<>>
    /\ msg = <<>>
    /\ input = <<>>
    /\ output = <<>>
    /\ qr = <<>>
    /\ stored_data = <<>>
    /\ store_access = {}
    /\ pc = <<>>
    /\ mirror = [ri |-> 0, conn |-> FALSE, insts |-> <<>>, outcome |-> "None",
                 calls |-> <<>>, msg |-> <<>>]

\* handler `name` ended in h on the MiniGU handle and in g on the AsyncMiniGU
\* handle
PairFinish(name, h, g) ==
    /\ WithinBounds(h)
    /\ WithinBounds(g)
    /\ rust_instance' = h.ri
    /\ is_connected' = h.conn
    /\ instances' = h.insts
    /\ close_called' = (close_called \/ name = "close")
    /\ op' = name
    /\ outcome' = (IF h.raised # "none" THEN h.raised ELSE h.ret)
    /\ calls' = h.calls
    /\ msg' = h.msg
    /\ mirror' = Seen(g)
    /\ UNCHANGED <<stored_data, store_access, pc, facade, HAS_RUST_BINDINGS, predicates_available, input, output, qr>>

PairExecute ==
    \E q \in Queries, cr \in ConnectAnswers, er \in ExecResponses :
        PairFinish("execute", MiniGU_execute(Start, q, cr, er),
                   AsyncMiniGU_execute(MirrorStart, q, cr, er))

PairCreateGraph ==
    \E n \in GraphNames, cr \in ConnectAnswers, er \in ExecResponses :
        PairFinish("create_graph", MiniGU_create_graph(Start, n, cr, er),
                   AsyncMiniGU_create_graph(MirrorStart, n, cr, er))

PairLoad ==
    \E d \in LoadInputs, cr \in ConnectAnswers, fileOk \in BOOLEAN :
        PairFinish("load", MiniGU_load(Start, d, cr, fileOk),
                   AsyncMiniGU_load(MirrorStart, d, cr, fileOk))

PairSave ==
    \E p \in Paths, cr \in ConnectAnswers, fileOk \in BOOLEAN :
        PairFinish("save", MiniGU_save(Start, p, cr, fileOk),
                   AsyncMiniGU_save(MirrorStart, p, cr, fileOk))

PairBeginTransaction ==
    PairFinish("begin_transaction", MiniGU_begin_transaction(Start),
               AsyncMiniGU_begin_transaction(MirrorStart))

PairCommit ==
    PairFinish("commit", MiniGU_commit(Start), AsyncMiniGU_commit(MirrorStart))

PairRollback ==
    PairFinish("rollback", MiniGU_rollback(Start), AsyncMiniGU_rollback(MirrorStart))

PairClose ==
    \E closeOk \in BOOLEAN :
        PairFinish("close", BaseMiniGU_close(Start, closeOk),
                   AsyncMiniGU_close(MirrorStart, closeOk))

PairNext ==
    \/ PairExecute
    \/ PairCreateGraph
    \/ PairLoad
    \/ PairSave
    \/ PairBeginTransaction
    \/ PairCommit
    \/ PairRollback
    \/ PairClose

SpecPair == PairInit /\ [][PairNext]_vars

(***************************************************************************)
(* The eager facade: class MiniGU of src/python/minigu.py.  It connects in *)
(* its constructor, refuses every operation once is_connected is false and *)
(* keeps the simulated store _stored_data.  A handler maps the handle at   *)
(* its start to the handle at its end; acc collects how it touched the     *)
(* store and res is the QueryResult it returned.                           *)
(***************************************************************************)
MaxStored == 2      \* records _stored_data may hold

\* str.startswith and str.endswith
StartsWith(s, k) == Len(s) >= Len(k) /\ SubSeq(s, 1, Len(k)) = k
EndsWith(s, k) == Len(s) >= Len(k) /\ SubSeq(s, Len(s) - Len(k) + 1, Len(s)) = k

KwMatch == <<"m","a","t","c","h">>
KwSelect == <<"s","e","l","e","c","t">>
KwCount == <<"c","o","u","n","t">>
DotJson == <<".","j","s","o","n">>

EagerQueries ==
    { <<"M","A","T","C","H">>, <<"c","o","u","n","t">>, <<"I","N","S","E","R","T">> }
EagerGraphNames == { <<"g">>, <<"c","o","u","n","t","s">> }
EagerPaths == { <<"d",".","j","s","o","n">>, <<"d",".","m","g","u">> }
EagerData == { <<RecAlice>>, <<RecPlain, RecAlice>> }
\* load() and insert() take a list of records or a string; for load() in
\* simulated mode `data` is also what json.load finds in the file
EagerInputs == [isStr : BOOLEAN, path : EagerPaths, data : EagerData]

\* an INSERT statement handed to insert() as a string
ExInsertAlice ==
    <<"I","N","S","E","R","T"," ",":","P","e","r","s","o","n"," ","{"," ","n","a","m","e",":"," ","'","A","l","i","c","e","'",","," ","a","g","e",":"," ","3","0"," ","}">>

NodeSchema == <<"node_id", "node_label", "properties">>
DefaultRows == << <<1, "Person", "Alice">>, <<2, "Person", "Bob">>, <<3, "Company", "TechCorp">> >>
EmptyResult == [schema |-> <<>>, data |-> <<>>]
\* what the engine's execute() answers
EngineResult == [schema |-> <<"n">>, data |-> << <<1>> >>]

EagerStart ==
    [ri |-> rust_instance, conn |-> is_connected, insts |-> instances,
     store |-> stored_data, acc |-> {}, calls |-> <<>>, raised |-> "none",
     ret |-> "None", res |-> <<>>]

\* MiniGU.execute
python_MiniGU_execute(h, query, ok) ==
    IF ~h.conn THEN [h EXCEPT !.raised = "MiniGUError"]
    ELSE IF HAS_RUST_BINDINGS /\ h.ri # 0
    THEN LET called == [h EXCEPT !.calls = Append(@, Call("execute", h.ri, query))]
         IN IF ok THEN [called EXCEPT !.ret = "QueryResult", !.res = EngineResult]
            ELSE [called EXCEPT !.raised = "MiniGUError"]
    ELSE LET query_lower == StrLower(query)
         IN IF StartsWith(query_lower, KwMatch) \/ StartsWith(query_lower, KwSelect)
            THEN [h EXCEPT !.acc = @ \cup {"read"}, !.ret = "QueryResult",
                           !.res = [schema |-> NodeSchema,
                                    data |-> IF h.store # <<>>
                                             THEN [i \in DOMAIN h.store |->
                                                     <<i, GetLabel(h.store[i]), h.store[i]>>]
                                             ELSE DefaultRows]]
            ELSE IF Contains(query_lower, KwCount)
            THEN [h EXCEPT !.acc = @ \cup {"read"}, !.ret = "QueryResult",
                           !.res = [schema |-> <<"count">>,
                                    data |-> << <<Len(h.store)>> >>]]
            ELSE [h EXCEPT !.ret = "QueryResult", !.res = EmptyResult]

\* MiniGU.load; ok: the native call, or reading the JSON file, succeeds
python_MiniGU_load(h, d, ok) ==
    IF ~h.conn THEN [h EXCEPT !.raised = "MiniGUError"]
    ELSE IF HAS_RUST_BINDINGS /\ h.ri # 0
    THEN IF d.isStr
         THEN LET called == [h EXCEPT !.calls = Append(@, Call("load_from_file", h.ri, d.path))]
              IN IF ok THEN called ELSE [called EXCEPT !.raised = "MiniGUError"]
         ELSE LET called == [h EXCEPT !.calls = Append(@, Call("load_data", h.ri, d.data))]
              IN IF ok THEN [called EXCEPT !.store = d.data, !.acc = @ \cup {"write"}]
                 ELSE [called EXCEPT !.raised = "MiniGUError"]
    ELSE IF d.isStr
         THEN IF EndsWith(d.path, DotJson) /\ ok
              THEN [h EXCEPT !.store = d.data, !.acc = @ \cup {"write"}]
              ELSE h
         ELSE [h EXCEPT !.store = d.data, !.acc = @ \cup {"write"}]

\* MiniGU.save; ok: the native call, or writing the file, succeeds
python_MiniGU_save(h, path, ok) ==
    IF ~h.conn THEN [h EXCEPT !.raised = "MiniGUError"]
    ELSE IF HAS_RUST_BINDINGS /\ h.ri # 0
    THEN LET called == [h EXCEPT !.calls = Append(@, Call("save_to_file", h.ri, path))]
         IN IF ok THEN called ELSE [called EXCEPT !.raised = "MiniGUError"]
    ELSE LET read == [h EXCEPT !.acc = @ \cup {"read"}]
         IN IF ok THEN read ELSE [read EXCEPT !.raised = "MiniGUError"]

CreateGraphPrefix == <<"C","R","E","A","T","E"," ","G","R","A","P","H"," ">>
CreateGraphSuffix == <<" ","A","N","Y">>

\* MiniGU.create_graph without a schema
python_MiniGU_create_graph(h, graph_name, ok) ==
    IF ~h.conn THEN [h EXCEPT !.raised = "MiniGUError"]
    ELSE IF HAS_RUST_BINDINGS /\ h.ri # 0
    THEN LET called == [h EXCEPT !.calls = Append(@, Call("create_graph", h.ri, graph_name))]
         IN IF ok THEN called ELSE [called EXCEPT !.raised = "MiniGUError"]
    ELSE LET executed == python_MiniGU_execute(
                             h, CreateGraphPrefix \o graph_name \o CreateGraphSuffix, ok)
         IN [executed EXCEPT !.ret = "None", !.res = <<>>]

\* MiniGU.insert
python_MiniGU_insert(h, d, ok) ==
    IF ~h.conn THEN [h EXCEPT !.raised = "MiniGUError"]
    ELSE IF HAS_RUST_BINDINGS /\ h.ri # 0
    THEN LET gql_data == IF d.isStr THEN ExInsertAlice ELSE format_insert_data(d.data)
             called == [h EXCEPT !.calls = Append(@, Call("insert_data", h.ri, gql_data))]
         IN IF ok THEN called ELSE [called EXCEPT !.raised = "MiniGUError"]
    ELSE IF d.isStr THEN h
         ELSE [h EXCEPT !.store = @ \o d.data, !.acc = @ \cup {"read", "write"}]

\* MiniGU.close
python_MiniGU_close(h, closeOk) ==
    IF h.conn
    THEN IF HAS_RUST_BINDINGS /\ h.ri # 0
         THEN LET called == [h EXCEPT !.insts[h.ri].closeCalls = @ + 1,
                                      !.calls = Append(@, Call("close", h.ri, <<>>))]
              IN IF closeOk
                 THEN [called EXCEPT !.insts[h.ri].released = TRUE, !.conn = FALSE]
                 ELSE [called EXCEPT !.raised = "NativeError"]
         ELSE [h EXCEPT !.conn = FALSE]
    ELSE h

\* MiniGU.__init__ with _connect: the handle as the constructor returns it
EagerInit ==
    /\ facade = "python.MiniGU"
    /\ HAS_RUST_BINDINGS \in BOOLEAN
    /\ predicates_available = FALSE
    /\ rust_instance = (IF HAS_RUST_BINDINGS THEN 1 ELSE 0)
    /\ instances = (IF HAS_RUST_BINDINGS THEN <<NewInstance(TRUE)>> ELSE <<>>)
    /\ is_connected = TRUE
    /\ stored_data = <<>>
    /\ store_access = {}
    /\ close_called = FALSE
    /\ op = "init"
    /\ outcome = "None"
    /\ calls = <<>>
    /\ msg = <<>>
    /\ input = <<>>
    /\ output = <<>>
    /\ qr = <<>>
    /\ mirror = <<>>
    /\ pc = <<>>

\* the handle, the store and the ghosts after handler `name` ended in h
EagerFinish(name, h) ==
    /\ Len(h.store) <= MaxStored
    /\ CloseCalls(h.insts) <= MaxCloseCalls
    /\ rust_instance' = h.ri
    /\ is_connected' = h.conn
    /\ instances' = h.insts
    /\ stored_data' = h.store
    /\ store_access' = h.acc
    /\ close_called' = (close_called \/ name = "close")
    /\ op' = name
    /\ outcome' = (IF h.raised # "none" THEN h.raised ELSE h.ret)
    /\ calls' = h.calls
    /\ qr' = h.res
    /\ UNCHANGED <<facade, HAS_RUST_BINDINGS, predicates_available, msg, input,
                   output, mirror, pc>>

EagerExecute ==
    \E q \in EagerQueries, ok \in BOOLEAN :
        EagerFinish("execute", python_MiniGU_execute(EagerStart, q, ok))

EagerLoad ==
    \E d \in EagerInputs, ok \in BOOLEAN :
        EagerFinish("load", python_MiniGU_load(EagerStart, d, ok))

EagerSave ==
    \E p \in EagerPaths, ok \in BOOLEAN :
        EagerFinish("save", python_MiniGU_save(EagerStart, p, ok))

EagerCreateGraph ==
    \E n \in EagerGraphNames, ok \in BOOLEAN :
        EagerFinish("create_graph", python_MiniGU_create_graph(EagerStart, n, ok))

EagerInsert ==
    \E d \in EagerInputs, ok \in BOOLEAN :
        EagerFinish("insert", python_MiniGU_insert(EagerStart, d, ok))

EagerClose ==
    \E closeOk \in BOOLEAN :
        EagerFinish("close", python_MiniGU_close(EagerStart, closeOk))

EagerNext ==
    \/ EagerExecute
    \/ EagerLoad
    \/ EagerSave
    \/ EagerCreateGraph
    \/ EagerInsert
    \/ EagerClose

SpecEager == EagerInit /\ [][EagerNext]_vars

(***************************************************************************)
(* Two threads using one blocking handle.  Each thread calls execute();    *)
(* the statements of _ensure_connected and _connect are separate steps, so *)
(* the other thread can run between any two of them.  pc[t].at is the      *)
(* statement thread t executes next, pc[t].own the instance it allocated.  *)
(***************************************************************************)
Threads == {1, 2}

\* self._rust_instance = <new object>: a plain assignment, which leaves the
\* instance referenced until then as it is
Overwrite_ReleasingOld(insts, ri) ==
    IF ri # 0
    THEN [insts EXCEPT ![ri].closeCalls = @ + 1, ![ri].released = TRUE]
    ELSE insts

Overwrite(insts, ri) == insts

ThreadsInit ==
    /\ facade = "MiniGU"
    /\ HAS_RUST_BINDINGS \in BOOLEAN
    /\ predicates_available = FALSE
    /\ rust_instance = 0
    /\ is_connected = FALSE
    /\ instances = <<>>
    /\ close_called = FALSE
    /\ op = "init"
    /\ outcome = "None"
    /\ calls = <<>>
    /\ msg = <<>>
    /\ input = <<>>
    /\ output = <<>>
    /\ qr = <<>>
    /\ mirror = <<>>
    /\ stored_data = <<>>
    /\ store_access = {}
    /\ pc = [t \in Threads |-> [at |-> "ensure_connected", own |-> 0]]

\* what a step of a thread leaves alone
ThreadFrame ==
    UNCHANGED <<facade, HAS_RUST_BINDINGS, predicates_available, close_called,
                msg, input, output, qr, mirror, stored_data, store_access>>

\* _ensure_connected: if not self.is_connected
ThreadEnsureConnected(t) ==
    /\ pc[t].at = "ensure_connected"
    /\ pc' = [pc EXCEPT ![t].at = IF is_connected THEN "execute" ELSE "connect"]
    /\ op' = "_ensure_connected" /\ outcome' = "None" /\ calls' = <<>>
    /\ UNCHANGED <<rust_instance, is_connected, instances>>
    /\ ThreadFrame

\* _connect: if not self.is_connected, and the test of the bindings
ThreadConnect(t) ==
    /\ pc[t].at = "connect"
    /\ pc' = [pc EXCEPT ![t].at = IF is_connected THEN "execute"
                                  ELSE IF HAS_RUST_BINDINGS THEN "PyMiniGU"
                                  ELSE "done"]
    /\ op' = "_connect" /\ calls' = <<>>
    /\ outcome' = (IF ~is_connected /\ ~HAS_RUST_BINDINGS THEN "ConnectionError" ELSE "None")
    /\ UNCHANGED <<rust_instance, is_connected, instances>>
    /\ ThreadFrame

\* _connect: self._rust_instance = PyMiniGU()
ThreadAllocate(t) ==
    /\ pc[t].at = "PyMiniGU"
    /\ \E allocOk \in BOOLEAN :
          IF allocOk
          THEN LET new == Len(instances) + 1
               IN /\ instances' = Append(Overwrite(instances, rust_instance),
                                         [NewInstance(FALSE) EXCEPT !.init = "not called"])
                  /\ rust_instance' = new
                  /\ pc' = [pc EXCEPT ![t] = [at |-> "init", own |-> new]]
                  /\ calls' = <<Call("PyMiniGU", new, <<>>)>>
                  /\ outcome' = "None"
          ELSE /\ pc' = [pc EXCEPT ![t].at = "done"]
               /\ calls' = <<Call("PyMiniGU", 0, <<>>)>>
               /\ outcome' = "ConnectionError"
               /\ UNCHANGED <<rust_instance, instances>>
    /\ op' = "PyMiniGU"
    /\ UNCHANGED is_connected
    /\ ThreadFrame

\* _connect: self._rust_instance.init(), on the instance the handle refers to now
ThreadInitInstance(t) ==
    /\ pc[t].at = "init"
    /\ \E initOk \in BOOLEAN :
          /\ instances' = [instances EXCEPT ![rust_instance].init =
                               IF initOk THEN "ok" ELSE "failed"]
          /\ pc' = [pc EXCEPT ![t].at = IF initOk THEN "is_connected" ELSE "done"]
          /\ outcome' = (IF initOk THEN "None" ELSE "ConnectionError")
    /\ op' = "init" /\ calls' = <<Call("init", rust_instance, <<>>)>>
    /\ UNCHANGED <<rust_instance, is_connected>>
    /\ ThreadFrame

\* _connect: self.is_connected = True
ThreadSetConnected(t) ==
    /\ pc[t].at = "is_connected"
    /\ is_connected' = TRUE
    /\ pc' = [pc EXCEPT ![t].at = "execute"]
    /\ op' = "is_connected" /\ outcome' = "None" /\ calls' = <<>>
    /\ UNCHANGED <<rust_instance, instances>>
    /\ ThreadFrame

\* the rest of execute(): the native call and the conversion of its result
ThreadExecute(t) ==
    /\ pc[t].at = "execute"
    /\ \E q \in Queries, er \in ExecResponses :
          LET h == MiniGU_execute([Start EXCEPT !.conn = TRUE], q, "ok", er)
          IN /\ outcome' = (IF h.raised # "none" THEN h.raised ELSE h.ret)
             /\ calls' = h.calls
    /\ pc' = [pc EXCEPT ![t].at = "done"]
    /\ op' = "execute"
    /\ UNCHANGED <<rust_instance, is_connected, instances>>
    /\ ThreadFrame

ThreadsNext ==
    \E t \in Threads :
        \/ ThreadEnsureConnected(t)
        \/ ThreadConnect(t)
        \/ ThreadAllocate(t)
        \/ ThreadInitInstance(t)
        \/ ThreadSetConnected(t)
        \/ ThreadExecute(t)

SpecThreads == ThreadsInit /\ [][ThreadsNext]_vars

(***************************************************************************)
(* Two tasks of one cooperative scheduler using one AsyncMiniGU handle.    *)
(* A task runs until it reaches an await that yields; the scheduler then   *)
(* picks a task again.  pc[t].at is where task t stands: "start" before    *)
(* its call, "_connect" when it yielded inside _connect after the test of  *)
(* is_connected, "done" after its call; pc[t].op is the call it is in.     *)
(***************************************************************************)
Tasks == {1, 2}

\* a scheduler in which the operation yields inside _connect, between the
\* test of is_connected and PyMiniGU()
AwaitPoints_InConnect == {"_connect"}

\* the statements of an AsyncMiniGU operation that yield to the scheduler:
\* the bodies of execute, load, save and create_graph contain no await
AwaitPoints == {}

TasksInit ==
    /\ facade = "AsyncMiniGU"
    /\ HAS_RUST_BINDINGS \in BOOLEAN
    /\ predicates_available = FALSE
    /\ rust_instance = 0
    /\ is_connected = FALSE
    /\ instances = <<>>
    /\ close_called = FALSE
    /\ op = "init"
    /\ outcome = "None"
    /\ calls = <<>>
    /\ msg = <<>>
    /\ input = <<>>
    /\ output = <<>>
    /\ qr = <<>>
    /\ mirror = <<>>
    /\ stored_data = <<>>
    /\ store_access = {}
    /\ pc = [t \in Tasks |-> [at |-> "start", op |-> "none"]]

\* one turn of task t in the operation `name`; fresh is the handle after the
\* whole operation, resumed the handle after the operation went on inside
\* _connect, past the test of is_connected
TaskRun(t, name, fresh, resumed) ==
    /\ pc[t].at # "done"
    /\ pc[t].op \in {"none", name}
    /\ IF pc[t].at = "start" /\ ~is_connected /\ "_connect" \in AwaitPoints
       THEN /\ pc' = [pc EXCEPT ![t] = [at |-> "_connect", op |-> name]]
            /\ outcome' = "suspended"
            /\ calls' = <<>>
            /\ UNCHANGED <<rust_instance, is_connected, instances, msg>>
       ELSE LET h == IF pc[t].at = "_connect" THEN resumed ELSE fresh
            IN /\ WithinBounds(h)
               /\ pc' = [pc EXCEPT ![t] = [at |-> "done", op |-> name]]
               /\ rust_instance' = h.ri
               /\ is_connected' = h.conn
               /\ instances' = h.insts
               /\ outcome' = (IF h.raised # "none" THEN h.raised ELSE h.ret)
               /\ calls' = h.calls
               /\ msg' = h.msg
    /\ op' = name
    /\ UNCHANGED <<facade, HAS_RUST_BINDINGS, predicates_available, close_called,
                   input, output, qr, mirror, stored_data, store_access>>

\* the handle as an operation that has passed the test of is_connected sees it
PastCheck == [Start EXCEPT !.conn = FALSE]

\* await db.execute(q)
TaskExecute(t) ==
    \E q \in Queries, cr \in ConnectResponses, er \in ExecResponses :
        TaskRun(t, "execute", AsyncMiniGU_execute(Start, q, cr, er),
                AsyncMiniGU_execute(PastCheck, q, cr, er))

\* await db.load(d)
TaskLoad(t) ==
    \E d \in LoadInputs, cr \in ConnectResponses, fileOk \in BOOLEAN :
        TaskRun(t, "load", AsyncMiniGU_load(Start, d, cr, fileOk),
                AsyncMiniGU_load(PastCheck, d, cr, fileOk))

TasksNext ==
    \E t \in Tasks :
        \/ TaskExecute(t)
        \/ TaskLoad(t)

SpecTasks == TasksInit /\ [][TasksNext]_vars

(***************************************************************************)
(* Properties of the connection lifecycle (checked under Spec)             *)
(***************************************************************************)
\* the operations that begin with _ensure_connected
EnsureOps == {"execute", "load", "save", "create_graph", "get_database_status"}

\* the native functions the operation of the last step called
CalledFns(cs) == {cs[i].fn : i \in DOMAIN cs}

\* the last step tried to connect (called PyMiniGU()) and did not get connected
FailedConnect ==
    /\ calls # <<>>
    /\ calls[1].fn = "PyMiniGU"
    /\ ~is_connected

\* C1: once close() has been called on a handle, every later execute, load,
\* save or create_graph fails with a Connection error and makes no native call.
C1_ClosedHandleFailsFast ==
    (close_called /\ op \in {"execute", "load", "save", "create_graph"})
        => (outcome = "ConnectionError" /\ calls = <<>>)

\* C2: Closed is terminal: a handle that close() has disconnected is never
\* Connected again, whatever operation follows.
C2_ClosedIsTerminal ==
    [][(close_called /\ ~is_connected) => ~is_connected']_vars

\* C3: close() never raises, in any state, also when the native close() fails.
C3_CloseNeverRaises ==
    op = "close" => outcome = "None"

\* C4: a connect attempt that fails leaves the handle Disconnected with no
\* native-instance reference, and the caller gets a Connection error.
C4_FailedConnectLeavesNothing ==
    [][FailedConnect' =>
          /\ ~is_connected'
          /\ rust_instance' = rust_instance
          /\ rust_instance' = 0
          /\ outcome' = "ConnectionError"]_vars

\* C5: a failed connect is not cached: the operation after one calls
\* PyMiniGU() and init() again, and when both succeed the handle is Connected
\* to the new instance and the operation goes on past the connection check.
C5_FailedConnectIsRetried ==
    [][(FailedConnect /\ op' \in EnsureOps) =>
          /\ Len(calls') >= 1
          /\ calls'[1].fn = "PyMiniGU"
          /\ (calls'[1].on # 0 /\ instances'[calls'[1].on].init = "ok") =>
                /\ Len(calls') >= 2
                /\ calls'[2] = Call("init", calls'[1].on, <<>>)
                /\ is_connected'
                /\ rust_instance' = calls'[1].on
                /\ outcome' # "ConnectionError"]_vars

\* C5 witness: the current operation allocated the instance the handle is
\* connected to, after an earlier attempt on this never-closed handle failed
C5_Witness ==
    /\ is_connected
    /\ ~close_called
    /\ Len(instances) = 2
    /\ instances[1].init = "failed"
    /\ calls # <<>>
    /\ calls[1] = Call("PyMiniGU", 2, <<>>)
    /\ rust_instance = 2
    /\ op = "execute"
    /\ outcome = "QueryResult"

\* C6: on a Connected handle the connection check is a no-op: an execute,
\* load, save, create_graph or get_database_status that starts Connected calls
\* neither PyMiniGU() nor init() and keeps the instance, so the instance the
\* handle connected with stays the only one allocated for this connection.
C6_EnsureConnectedIsNoOpWhenConnected ==
    [][(is_connected /\ op' \in EnsureOps) =>
          /\ CalledFns(calls') \cap {"PyMiniGU", "init"} = {}
          /\ instances' = instances
          /\ rust_instance' = rust_instance
          /\ is_connected']_vars

\* C6 witness: a second operation has run on a handle that needed one
\* allocation: it called only the engine's execute
C6_Witness ==
    /\ is_connected
    /\ Len(instances) = 1
    /\ op = "execute"
    /\ Len(calls) = 1
    /\ calls[1].fn = "execute"
    /\ calls[1].on = 1

\* C7: whenever close() returns, every native instance the handle allocated
\* has been released (has had its close() called).
C7_CloseReleasesEveryInstance ==
    (op = "close" /\ outcome = "None")
        => \A i \in DOMAIN instances : instances[i].closeCalls > 0

\* C8: whatever a facade operation raises is one of the typed MiniGUError
\* kinds, never a raw exception.
C8_OnlyTypedErrorsPropagate ==
    outcome \notin RawErrors

(***************************************************************************)
(* Properties of the classifier (checked under SpecClassify)               *)
(***************************************************************************)
Classified == op = "_handle_exception"

\* case-insensitive containment of keyword k in the classified message
Has(k) == Contains(StrLower(msg), k)

\* C9 as stated: every message containing "syntax" or "unexpected" is Syntax.
C9_SyntaxOrUnexpectedIsSyntax ==
    (Classified /\ (Has(KwSyntax) \/ Has(KwUnexpected)))
        => outcome = "QuerySyntaxError"

\* C9 as amended: every message that contains "unexpected", or contains
\* "syntax" together with "error" or "invalid", is classified as Syntax,
\* whatever other keywords it contains.
C9_SyntaxRuleHasTopPriority ==
    (Classified /\ \/ Has(KwUnexpected)
                   \/ Has(KwSyntax) /\ (Has(KwError) \/ Has(KwInvalid)))
        => outcome = "QuerySyntaxError"

\* C9 witness: a message matching the syntax rule and the timeout rule
C9_Witness ==
    /\ Classified
    /\ Has(KwSyntax) /\ Has(KwError)
    /\ Has(KwTimeout)
    /\ outcome = "QuerySyntaxError"

\* C10: a message with neither "syntax" nor "unexpected" gets exactly one
\* kind: Timeout, else Transaction, else NotImplemented, else Execution, by
\* the first rule that matches; the classifier always yields a typed kind.
C10_FirstMatchWins ==
    Classified =>
        /\ outcome \in TypedErrors
        /\ (~Has(KwSyntax) /\ ~Has(KwUnexpected)) =>
              KindOf(outcome) =
                 IF Has(KwTimeout) THEN "Timeout"
                 ELSE IF Has(KwTransaction) \/ Has(KwTxn) \/ Has(KwCommit)
                            \/ Has(KwRollback) THEN "Transaction"
                 ELSE IF Has(KwNotImplemented) \/ Has(KwNotYetImplemented)
                 THEN "NotImplemented"
                 ELSE "Execution"

\* C10 witness: a message matching the timeout rule and the transaction rule
C10_Witness ==
    /\ Classified
    /\ ~Has(KwSyntax) /\ ~Has(KwUnexpected)
    /\ Has(KwTimeout)
    /\ Has(KwRollback)
    /\ outcome = "QueryTimeoutError"

(***************************************************************************)
(* Properties of the sanitizers and of the statement create_graph builds   *)
(* (checked under SpecSanitize)                                            *)
(***************************************************************************)
\* the subsequence of s at the positions of K, in order
KeptSeq(s, K) ==
    [k \in 1..Cardinality(K) |->
        s[CHOOSE i \in K : Cardinality({j \in K : j <= i}) = k]]

AsciiIdentifierChars == AsciiLetters \cup Digits \cup {"_"}

SanitizedName == op = "_sanitize_graph_name"

\* C11 as stated: for every input string the output of sanitize_identifier
\* contains only characters of [A-Za-z0-9_].
C11_OutputOnlyAsciiIdentifierChars ==
    SanitizedName => \A i \in DOMAIN output : output[i] \in AsciiIdentifierChars

\* C11 as amended: the output is the input with every character deleted that
\* is neither alphanumeric (str.isalnum, which accepts letters and digits
\* outside ASCII) nor "_", the others kept in order; for an input of ASCII
\* characters the output contains only characters of [A-Za-z0-9_]; the two
\* examples of the claim hold.
C11_DropsNonAlnumKeepsOrder ==
    SanitizedName =>
        /\ output = KeptSeq(input, {i \in DOMAIN input :
                               input[i] \in AsciiIdentifierChars \cup NonAsciiAlnum})
        /\ (\A i \in DOMAIN input : input[i] \notin NonAsciiAlnum)
              => \A i \in DOMAIN output : output[i] \in AsciiIdentifierChars
        /\ input = ExNameInjection => output = ExNameInjectionOut
        /\ input = ExNameOnlySpecial => output = <<>>

\* C11 witness: the injection attempt of the tests went through the sanitizer
C11_Witness ==
    /\ SanitizedName
    /\ input = ExNameInjection
    /\ output = ExNameInjectionOut

CreatedGraph == op = "create_graph"

\* a name of which the sanitizer leaves nothing
EmptyIdentifier ==
    \A i \in DOMAIN input : input[i] \notin AsciiIdentifierChars \cup NonAsciiAlnum

\* C12: create_graph on a connected handle with a name whose sanitized
\* identifier is empty gives its caller a Graph-kind error.
C12_EmptyIdentifierIsGraphError ==
    (CreatedGraph /\ is_connected /\ EmptyIdentifier) => outcome = "GraphError"

\* characters that would end the quoted argument or start another statement
StatementBreakers == {"'", "\"", "(", ")", ";", " ", "LF", "CR"}

\* the statements of the native execute calls of the last operation
SentStatements == {calls[i].arg : i \in {j \in DOMAIN calls : calls[j].fn = "execute"}}

\* the text between CALL create_test_graph(' and ') of statement st
Argument(st) == SubSeq(st, Len(CallPrefix) + 1, Len(st) - Len(CallSuffix))

\* C13: the only statement create_graph(name) sends to the engine is
\* CALL create_test_graph('<s>') with s the sanitized identifier of name, s
\* non-empty and free of quote, parenthesis, semicolon and whitespace; the
\* other native calls are those of connecting; nothing is sent for a name
\* whose sanitized identifier is empty.
C13_OnlySanitizedCallIsSent ==
    CreatedGraph =>
        /\ CalledFns(calls) \subseteq {"PyMiniGU", "init", "execute"}
        /\ Cardinality({j \in DOMAIN calls : calls[j].fn = "execute"}) <= 1
        /\ \A st \in SentStatements :
              /\ Len(st) > Len(CallPrefix) + Len(CallSuffix)
              /\ SubSeq(st, 1, Len(CallPrefix)) = CallPrefix
              /\ SubSeq(st, Len(st) - Len(CallSuffix) + 1, Len(st)) = CallSuffix
              /\ Argument(st) = KeptSeq(input, {i \in DOMAIN input :
                                   input[i] \in AsciiIdentifierChars \cup NonAsciiAlnum})
              /\ \A i \in DOMAIN Argument(st) : Argument(st)[i] \notin StatementBreakers
        /\ EmptyIdentifier => SentStatements = {}

\* C13 witness: the injection attempt of the tests was sent as one statement
C13_Witness ==
    /\ CreatedGraph
    /\ input = ExNameInjection
    /\ SentStatements = {CallPrefix \o ExNameInjectionOut \o CallSuffix}
    /\ outcome = "True"

SanitizedPath == op = "_sanitize_file_path"

\* the input without quotes, semicolons, newlines and carriage returns
Stripped ==
    KeptSeq(input, {i \in DOMAIN input : input[i] \notin {"'", "\"", ";", "LF", "CR"}})

\* first and last position of the run of dots around position i of s
DotRunFirst(s, i) ==
    CHOOSE a \in 1..i : /\ \A j \in a..i : s[j] = "."
                        /\ (a = 1 \/ s[a - 1] # ".")
DotRunLast(s, i) ==
    CHOOSE b \in i..Len(s) : /\ \A j \in i..b : s[j] = "."
                             /\ (b = Len(s) \/ s[b + 1] # ".")

\* position i of s lies in an occurrence of ".." found by one left-to-right
\* pass over non-overlapping occurrences: in a run of n dots these are the
\* first 2 * (n \div 2) dots
InDotDot(s, i) ==
    /\ s[i] = "."
    /\ LET a == DotRunFirst(s, i)
           n == DotRunLast(s, i) - a + 1
       IN i - a < 2 * (n \div 2)

\* C14: sanitize_path(p) is p without its single quotes, double quotes,
\* semicolons, newlines and carriage returns and then without the
\* non-overlapping occurrences of ".." of one left-to-right pass; the output
\* contains none of the five characters; the three examples hold.
C14_StripThenRemoveDotDot ==
    SanitizedPath =>
        /\ output = KeptSeq(Stripped, {i \in DOMAIN Stripped : ~InDotDot(Stripped, i)})
        /\ \A i \in DOMAIN output : output[i] \notin {"'", "\"", ";", "LF", "CR"}
        /\ input = ExPathQuote => output = ExPathClean
        /\ input = ExPathNewline => output = ExPathClean
        /\ input = ExPathTraversal => output = ExPathTraversalOut

\* C14 witness: a path whose dots become adjacent only by the stripping
C14_Witness ==
    /\ SanitizedPath
    /\ input = <<".", "'", ".">>
    /\ output = <<>>

(***************************************************************************)
(* Properties of the transaction methods (checked under Spec)              *)
(***************************************************************************)
TransactionOps == {"begin_transaction", "commit", "rollback"}

Formatted == op = "_format_insert_data"

\* the number of occurrences of k in s
Occurrences(s, k) ==
    Cardinality({i \in 1..(Len(s) - Len(k) + 1) : SubSeq(s, i, i + Len(k) - 1) = k})

KwInsert == <<"I","N","S","E","R","T"," ",":">>


\* C16: build_insert(R) holds exactly len(R) occurrences of "INSERT :", is
\* the empty string for an empty R, and for the one record
\* {label: Person, name: Alice, age: 30} is exactly
\* INSERT :Person { name: 'Alice', age: 30 }.
C16_OneInsertClausePerRecord ==
    Formatted =>
        /\ Occurrences(output, KwInsert) = Len(input)
        /\ input = <<>> => output = <<>>
        /\ input = <<RecAlice>> => output = ExInsertAlice

\* the properties of the records of data, the label entries left out
PropCount(data) ==
    Cardinality({ij \in (DOMAIN data) \X (1..8) :
                    /\ ij[2] \in DOMAIN data[ij[1]]
                    /\ data[ij[1]][ij[2]][1] # KeyLabel})

\* a single quote of s that is neither preceded by a backslash nor doubled
BareQuote(s, i) ==
    /\ s[i] = "'"
    /\ (i > 1 => s[i - 1] \notin {"\\", "'"})
    /\ (i < Len(s) => s[i + 1] # "'")

\* C17: a string value never ends its quoted literal early: the record is
\* rejected, or the only bare single quotes of the text are the two that
\* delimit each value.
C17_QuotesCannotEndLiteral ==
    Formatted =>
        \/ outcome \in TypedErrors \cup RawErrors
        \/ Cardinality({i \in DOMAIN output : BareQuote(output, i)})
              = 2 * PropCount(input)

(***************************************************************************)
(* Properties of QueryResult (checked under SpecResult)                    *)
(***************************************************************************)
\* some result.to_list() of a python/minigu.py QueryResult has returned
Listed == op = "to_list" /\ facade = "python.MiniGU"

\* the schema, data and metrics the engine returned for the result
GivenSchema == DictGet(input, "schema", <<>>)
GivenData == DictGet(input, "data", <<>>)
GivenMetrics == DictGet(input, "metrics", <<>>)

\* the attributes of the result are those it was built with
AsBuilt ==
    /\ qr.schema = GivenSchema
    /\ qr.data = GivenData
    /\ qr.metrics = GivenMetrics
    /\ qr.row_count = Len(GivenData)

\* C18 as stated: to_list returns one record per row, in row order, each
\* mapping the i-th column name to the i-th value of the row, and the empty
\* sequence when schema or data is empty; after any calls of to_list and
\* to_dict the result is the same and schema, data, metrics and row_count
\* are unchanged.
C18_EachColumnNameMapsToItsValue ==
    (op \in {"to_list", "to_dict"} /\ facade = "python.MiniGU") =>
        /\ AsBuilt
        /\ Listed =>
              IF GivenSchema = <<>> \/ GivenData = <<>> THEN output = <<>>
              ELSE /\ Len(output) = Len(GivenData)
                   /\ \A r \in DOMAIN GivenData :
                        \A i \in (DOMAIN GivenSchema) \cap (DOMAIN GivenData[r]) :
                           /\ GivenSchema[i].name \in DOMAIN output[r]
                           /\ output[r][GivenSchema[i].name] = GivenData[r][i]

\* C18 as amended: to_list returns one record per row, in row order; the
\* record of a row with m values has as keys the first min(len(schema), m)
\* column names and maps each key to the value at the last position where
\* that name stands (so with distinct column names the i-th name maps to the
\* i-th value); the empty sequence when schema or data is empty; after any
\* calls of to_list and to_dict the result is the same and schema, data,
\* metrics and row_count are unchanged.
C18_RecordPerRowLastColumnWins ==
    (op \in {"to_list", "to_dict"} /\ facade = "python.MiniGU") =>
        /\ AsBuilt
        /\ Listed =>
              IF GivenSchema = <<>> \/ GivenData = <<>> THEN output = <<>>
              ELSE /\ Len(output) = Len(GivenData)
                   /\ \A r \in DOMAIN GivenData :
                        LET n == Min(Len(GivenSchema), Len(GivenData[r]))
                        IN /\ DOMAIN output[r] = {GivenSchema[i].name : i \in 1..n}
                           /\ \A i \in 1..n :
                                 (\A j \in (i + 1)..n :
                                     GivenSchema[j].name # GivenSchema[i].name)
                                 => output[r][GivenSchema[i].name] = GivenData[r][i]

\* C18 witness: two rows listed under two distinct column names
C18_Witness ==
    /\ Listed
    /\ Len(GivenSchema) = 2
    /\ GivenSchema[1].name # GivenSchema[2].name
    /\ GivenData = <<<<"1", "2">>, <<"2", "2">>>>
    /\ output = <<[k \in {GivenSchema[1].name, GivenSchema[2].name} |->
                     IF k = GivenSchema[1].name THEN "1" ELSE "2"],
                  [k \in {GivenSchema[1].name, GivenSchema[2].name} |-> "2"]>>
    /\ AsBuilt

\* C19: every QueryResult that execute returned, on either facade, carries a
\* row_count equal to the number of rows of its data, as long as it exists.
C19_RowCountIsLenData ==
    (op # "init" /\ facade \in Facades) =>
        /\ "row_count" \in DOMAIN qr
        /\ qr.row_count = Len(qr.data)

(***************************************************************************)
(* MiniGU against AsyncMiniGU (checked under SpecPair)                     *)
(***************************************************************************)
\* C20: after every sequence of execute, load, save, create_graph,
\* begin_transaction, commit, rollback and close, with the same arguments and
\* the same engine responses, the MiniGU handle and the AsyncMiniGU handle
\* gave the same result or error kind with the same message, made the same
\* native calls in the same order, and are in the same connection state with
\* the same native instances.
C20_FacadesAgree ==
    /\ mirror.outcome = outcome
    /\ mirror.msg = msg
    /\ mirror.calls = calls
    /\ mirror.conn = is_connected
    /\ mirror.ri = rust_instance
    /\ mirror.insts = instances

\* C20 witness: both handles reconnected after a close and ran a query on
\* their second native instance
C20_Witness ==
    /\ close_called
    /\ op = "execute"
    /\ outcome = "QueryResult"
    /\ rust_instance = 2
    /\ "execute" \in CalledFns(calls)
    /\ mirror.ri = 2
    /\ mirror.outcome = "QueryResult"

KwRustBindings == <<"r","u","s","t"," ","b","i","n","d","i","n","g","s">>

\* C21: without the native bindings, execute, load, save and create_graph are
\* all refused with an error that names the Rust bindings; none reports a
\* result.
C21_RefusedWithoutBindings ==
    (~HAS_RUST_BINDINGS /\ op \in {"execute", "load", "save", "create_graph"}) =>
        /\ outcome \in TypedErrors \cup RawErrors
        /\ Contains(StrLower(msg), KwRustBindings)

\* the settings a handle is constructed with
ConfigNames == {"thread_count", "cache_size", "enable_logging"}

\* native call c hands a setting to the engine
AppliesConfig(c) == \E i \in DOMAIN c.arg : c.arg[i] \in ConfigNames

\* C23: the step that takes the handle from Disconnected to Connected applies
\* the configuration to the native instance, in exactly one native call, and
\* no other step applies it.
C23_ConfigAppliedOnceAtConnect ==
    LET applied == {i \in DOMAIN calls : AppliesConfig(calls[i])}
    IN IF is_connected /\ "init" \in CalledFns(calls)
       THEN Cardinality(applied) = 1
       ELSE applied = {}

\* C24: close() on a handle that is not connected makes no native close()
\* call, and no native instance ever gets more than one close() call.
C24_CloseOfUnconnectedIsNoOp ==
    [][/\ (op' = "close" /\ ~is_connected) => "close" \notin CalledFns(calls')
       /\ \A i \in DOMAIN instances' : instances'[i].closeCalls <= 1]_vars

\* C25 as stated in the specification, for the input it names: the path
\* returned for "....//" still contains the two-character sequence "..".
DotDot == <<".", ".">>
C25_NestedTraversalSurvives ==
    (SanitizedPath /\ input = ExPathNested) => Contains(output, DotDot)

\* C25 (amended): the path returned by _sanitize_file_path never contains
\* "..": str.replace removes every non-overlapping ".." from left to right and
\* nothing is stripped afterwards, so each run of dots shrinks to at most one
\* dot; for "....//" the result is "//".
C25_NoDotDotInSanitizedPath ==
    SanitizedPath =>
        /\ ~Contains(output, DotDot)
        /\ input = ExPathNested => output = <<"/", "/">>
C25_Witness ==
    SanitizedPath /\ input = ExPathNested /\ output = <<"/", "/">>

\* C22: on the eager facade, once close() has been called, each of execute,
\* load, save, create_graph and insert raises MiniGUError, without a native
\* call and without reading or changing _stored_data.
EagerOps == {"execute", "load", "save", "create_graph", "insert"}
C22_ClosedEagerHandleRefuses ==
    (facade = "python.MiniGU" /\ close_called /\ op \in EagerOps) =>
        /\ outcome = "MiniGUError"
        /\ calls = <<>>
        /\ store_access = {}

\* C28: two threads that start an operation on the same Disconnected handle
\* are not kept apart: every thread that found the handle Disconnected
\* allocates an instance of its own, and an instance whose reference was
\* overwritten is never released.  The witness is the state the claim names:
\* both threads done, two instances allocated, the first one's reference
\* overwritten and that instance not released.
C28_UnguardedConnect ==
    /\ Len(instances) = Cardinality({t \in Threads : pc[t].own # 0})
    /\ \A i \in DOMAIN instances :
          i # rust_instance => /\ ~instances[i].released
                               /\ instances[i].closeCalls = 0
C28_Witness ==
    /\ \A t \in Threads : pc[t].at = "done" /\ pc[t].own # 0
    /\ Len(instances) = 2
    /\ rust_instance = 2
    /\ ~instances[1].released

C27_BlockExitCloses ==
    op \in {"__exit__", "__aexit__"} =>
        /\ ~is_connected
        /\ rust_instance # 0 => instances[rust_instance].closeCalls >= 1

\* C29: a connected handle holds a native instance whose init() succeeded and
\* whose close() was not called, and the native execute, load_data,
\* load_from_file and save_to_file of a step are made on such an instance.
C29_ConnectedMeansLiveInstance ==
    /\ is_connected =>
          /\ rust_instance # 0
          /\ instances[rust_instance].init = "ok"
          /\ instances[rust_instance].closeCalls = 0
    /\ \A i \in DOMAIN calls :
          calls[i].fn \in {"execute", "load_data", "load_from_file", "save_to_file"}
             => /\ calls[i].on = rust_instance
                /\ instances[calls[i].on].init = "ok"
                /\ instances[calls[i].on].closeCalls = 0

====
